---- MODULE Spec2Model ----
(***************************************************************************)
(* A model of the PDL parser (src/src/parse.rs), its canonical-text        *)
(* renderer (src/src/display.rs) and the command-line caller               *)
(* (src/examples/parser.rs).                                               *)
(*                                                                         *)
(* Text is a sequence of one-character strings.  A parser is an operator   *)
(* p(s, i): s is the whole buffer and i the cursor (1-based index of the   *)
(* first unread character); it returns an IResult record                   *)
(*   [ok |-> TRUE,  pos |-> cursor after the match, val |-> the value]     *)
(*   [ok |-> FALSE, pos |-> cursor where the failing primitive stood, ...] *)
(* The remainder nom returns on success is Rest(s, pos).                   *)
(***************************************************************************)
EXTENDS Integers, Sequences, FiniteSets, TLC

VARIABLES
    rule,     \* the entry point under test: "parse", "version", "domain", "param", "ty", "main"
    chunks,   \* the catalogue indices of the pieces of text written into the buffer so far
    input,    \* the text buffer handed to the parser
    pc,       \* "edit", "parsed", "rendered", "reparsed"; for main: "start", "exit"
    res,      \* the IResult of the entry point on input
    text,     \* the canonical text rendered from res.val
    res2,     \* the IResult of parse on text
    rest_len, \* main: the length in bytes of the remainder parse returned
    warn_on,  \* main: whether the logger enables the Warn level
    shown     \* main: the number of remainder bytes shown in the warning (-1: no warning)

vars == <<rule, chunks, input, pc, res, text, res2, rest_len, warn_on, shown>>

----------------------------------------------------------------------------
(* The keywords of the grammar, each as its sequence of characters.         *)

K == [
    version |-> <<"v", "e", "r", "s", "i", "o", "n">>,
    major |-> <<"m", "a", "j", "o", "r">>,
    minor |-> <<"m", "i", "n", "o", "r">>,
    domain |-> <<"d", "o", "m", "a", "i", "n">>,
    experimental |-> <<"e", "x", "p", "e", "r", "i", "m", "e", "n", "t", "a", "l">>,
    deprecated |-> <<"d", "e", "p", "r", "e", "c", "a", "t", "e", "d">>,
    optional |-> <<"o", "p", "t", "i", "o", "n", "a", "l">>,
    depends_on |-> <<"d", "e", "p", "e", "n", "d", "s", " ", "o", "n">>,
    type |-> <<"t", "y", "p", "e">>,
    extends |-> <<"e", "x", "t", "e", "n", "d", "s">>,
    array_of |-> <<"a", "r", "r", "a", "y", " ", "o", "f">>,
    enum |-> <<"e", "n", "u", "m">>,
    properties |-> <<"p", "r", "o", "p", "e", "r", "t", "i", "e", "s">>,
    command |-> <<"c", "o", "m", "m", "a", "n", "d">>,
    parameters |-> <<"p", "a", "r", "a", "m", "e", "t", "e", "r", "s">>,
    returns |-> <<"r", "e", "t", "u", "r", "n", "s">>,
    event |-> <<"e", "v", "e", "n", "t">>,
    redirect |-> <<"r", "e", "d", "i", "r", "e", "c", "t">>,
    integer |-> <<"i", "n", "t", "e", "g", "e", "r">>,
    number |-> <<"n", "u", "m", "b", "e", "r">>,
    boolean |-> <<"b", "o", "o", "l", "e", "a", "n">>,
    string |-> <<"s", "t", "r", "i", "n", "g">>,
    object |-> <<"o", "b", "j", "e", "c", "t">>,
    any |-> <<"a", "n", "y">>,
    binary |-> <<"b", "i", "n", "a", "r", "y">> ]

----------------------------------------------------------------------------
(* Characters and slices.                                                  *)

\* char::is_whitespace, on the characters the model writes
is_whitespace(c) == c \in {" ", "\t", "\n", "\r"}

\* char::is_ascii_digit
is_ascii_digit(c) == c \in {"0", "1", "2", "3", "4", "5", "6", "7", "8", "9"}

\* the unread part of the buffer: what nom returns as the remaining input
Rest(s, i) == SubSeq(s, i, Len(s))

\* the concatenation of a sequence of texts
RECURSIVE Cat(_)
Cat(ts) ==
    IF ts = <<>> THEN <<>>
    ELSE IF Len(ts) = 1 THEN ts[1]
    ELSE Cat(SubSeq(ts, 1, Len(ts) \div 2))
         \o Cat(SubSeq(ts, Len(ts) \div 2 + 1, Len(ts)))

\* str::trim: the text without its leading and trailing whitespace
RECURSIVE trim_start(_)
trim_start(t) ==
    IF t # <<>> /\ is_whitespace(Head(t)) THEN trim_start(Tail(t)) ELSE t

RECURSIVE trim_end(_)
trim_end(t) ==
    IF t # <<>> /\ is_whitespace(t[Len(t)])
    THEN trim_end(SubSeq(t, 1, Len(t) - 1))
    ELSE t

trim(t) == trim_end(trim_start(t))

----------------------------------------------------------------------------
(* nom's IResult and the primitives of nom::bytes::complete and            *)
(* nom::character::complete the grammar uses.  All are the `complete`      *)
(* flavour: at the end of the buffer they fail with Err::Error.            *)

Ok(j, v) == [ok |-> TRUE, pos |-> j, val |-> v]
Err(i) == [ok |-> FALSE, pos |-> i, val |-> <<>>]

\* nom::Err::Incomplete(Needed): what the `streaming` flavour returns at the
\* end of the buffer; the failure holds the Needed in place of a value
Incomplete(i) == [ok |-> FALSE, pos |-> i, val |-> <<"Needed">>]

\* the failure is nom::Err::Error, the one alt, opt and many0 recover from
is_error(r) == ~r.ok /\ r.val = <<>>

\* tag(w): the literal w
tag(s, i, w) ==
    IF i + Len(w) - 1 <= Len(s) /\ \A k \in 1..Len(w) : s[i + k - 1] = w[k]
    THEN Ok(i + Len(w), w)
    ELSE Err(i)

\* char(c): the one character c
char(s, i, c) == IF i <= Len(s) /\ s[i] = c THEN Ok(i + 1, c) ELSE Err(i)

\* the cursor after the longest run of non-whitespace characters at i
RECURSIVE span_not_whitespace(_, _)
span_not_whitespace(s, i) ==
    IF i <= Len(s) /\ ~is_whitespace(s[i]) THEN span_not_whitespace(s, i + 1) ELSE i

\* take_while(|c| !c.is_whitespace()): never fails, may match nothing
take_while_not_whitespace(s, i) ==
    LET j == span_not_whitespace(s, i) IN Ok(j, SubSeq(s, i, j - 1))

\* the cursor after the longest run of ASCII digits at i
RECURSIVE span_digits(_, _)
span_digits(s, i) ==
    IF i <= Len(s) /\ is_ascii_digit(s[i]) THEN span_digits(s, i + 1) ELSE i

\* take_while(|c| c.is_ascii_digit()): never fails, may match nothing
take_while_digit(s, i) ==
    LET j == span_digits(s, i) IN Ok(j, SubSeq(s, i, j - 1))

\* the index of the first "\n" at or after i, or Len(s) + 1 when there is none
RECURSIVE find_newline(_, _)
find_newline(s, i) ==
    IF i <= Len(s) /\ s[i] # "\n" THEN find_newline(s, i + 1) ELSE i

\* nom::bytes::streaming::take_until("\n"): Incomplete when no newline is left
take_until_newline_streaming(s, i) ==
    LET j == find_newline(s, i)
    IN  IF j <= Len(s) THEN Ok(j, SubSeq(s, i, j - 1)) ELSE Incomplete(i)

\* take_until("\n"): the text before the next newline; fails when no newline is left
take_until_newline(s, i) ==
    LET j == find_newline(s, i)
    IN  IF j <= Len(s) THEN Ok(j, SubSeq(s, i, j - 1)) ELSE Err(i)

\* the cursor after the longest run of spaces and tabs at i
RECURSIVE span_blank(_, _)
span_blank(s, i) ==
    IF i <= Len(s) /\ s[i] \in {" ", "\t"} THEN span_blank(s, i + 1) ELSE i

\* an indent that is measured: a run of spaces only, two for each level
indent_measured(s, i) ==
    LET j == span_blank(s, i)
    IN  IF j > i /\ (j - i) % 2 = 0 /\ \A k \in i..(j - 1) : s[k] = " "
        THEN Ok(j, SubSeq(s, i, j - 1))
        ELSE Err(i)

\* recognize(many1(is_a(" \t"))): one or more spaces or tabs
indent(s, i) ==
    LET j == span_blank(s, i)
    IN  IF j > i THEN Ok(j, SubSeq(s, i, j - 1)) ELSE Err(i)

\* an end of line that also matches where no newline is, reading nothing
eol_or_nothing(s, i) ==
    IF i <= Len(s) /\ s[i] = "\n" THEN Ok(i + 1, "\n") ELSE Ok(i, "\n")

\* char('\n')
eol(s, i) == char(s, i, "\n")

\* recognize(many0(eol)): a run of newlines, possibly empty
RECURSIVE span_newlines(_, _)
span_newlines(s, i) ==
    IF i <= Len(s) /\ s[i] = "\n" THEN span_newlines(s, i + 1) ELSE i

empty_lines(s, i) ==
    LET j == span_newlines(s, i) IN Ok(j, SubSeq(s, i, j - 1))

\* map(opt(pair(tag(name), char(' '))), |v| v.is_some())
optional_found(i, t, c) ==
    IF t.ok /\ c.ok THEN Ok(c.pos, TRUE)
    ELSE IF is_error(IF t.ok THEN c ELSE t) THEN Ok(i, FALSE)
    ELSE IF t.ok THEN c
    ELSE t

optional_space(s, i, t) ==
    optional_found(i, t, IF t.ok THEN char(s, t.pos, " ") ELSE t)

\* optional with the test turned round: |v| v.is_none()
optional_is_none(s, i, name) ==
    LET r == optional_space(s, i, tag(s, i, name)) IN Ok(r.pos, ~r.val)

optional(s, i, name) == optional_space(s, i, tag(s, i, name))

----------------------------------------------------------------------------
(* nom's combinators.  A parser is an operator P(s, i); a parser passed to *)
(* a combinator is an operator argument.  tuple((p1, ..., pn)) is tuplen:  *)
(* the parsers run one after the other, each where the one before ended,   *)
(* and the first failure is the failure of the tuple; its value is the     *)
(* sequence of the n values.                                               *)

tuple_start(i) == [ok |-> TRUE, pos |-> i, val |-> <<>>]

\* the next parser of the tuple returned r
push(st, r) ==
    IF r.ok
    THEN [ok |-> TRUE, pos |-> r.pos, val |-> Append(st.val, r.val)]
    ELSE r

\* the next parser of the tuple is P
then(s, st, P(_, _)) == IF st.ok THEN push(st, P(s, st.pos)) ELSE st

tuple1(s, i, P1(_, _)) == then(s, tuple_start(i), P1)

tuple2(s, i, P1(_, _), P2(_, _)) ==
    then(s, tuple1(s, i, P1), P2)

tuple3(s, i, P1(_, _), P2(_, _), P3(_, _)) ==
    then(s, tuple2(s, i, P1, P2), P3)

tuple4(s, i, P1(_, _), P2(_, _), P3(_, _), P4(_, _)) ==
    then(s, tuple3(s, i, P1, P2, P3), P4)

tuple5(s, i, P1(_, _), P2(_, _), P3(_, _), P4(_, _), P5(_, _)) ==
    then(s, tuple4(s, i, P1, P2, P3, P4), P5)

tuple6(s, i, P1(_, _), P2(_, _), P3(_, _), P4(_, _), P5(_, _), P6(_, _)) ==
    then(s, tuple5(s, i, P1, P2, P3, P4, P5), P6)

tuple7(s, i, P1(_, _), P2(_, _), P3(_, _), P4(_, _), P5(_, _), P6(_, _),
        P7(_, _)) ==
    then(s, tuple6(s, i, P1, P2, P3, P4, P5, P6), P7)

tuple8(s, i, P1(_, _), P2(_, _), P3(_, _), P4(_, _), P5(_, _), P6(_, _),
        P7(_, _), P8(_, _)) ==
    then(s, tuple7(s, i, P1, P2, P3, P4, P5, P6, P7), P8)

tuple9(s, i, P1(_, _), P2(_, _), P3(_, _), P4(_, _), P5(_, _), P6(_, _),
        P7(_, _), P8(_, _), P9(_, _)) ==
    then(s, tuple8(s, i, P1, P2, P3, P4, P5, P6, P7, P8), P9)

tuple10(s, i, P1(_, _), P2(_, _), P3(_, _), P4(_, _), P5(_, _), P6(_, _),
        P7(_, _), P8(_, _), P9(_, _), P10(_, _)) ==
    then(s, tuple9(s, i, P1, P2, P3, P4, P5, P6, P7, P8, P9), P10)

tuple11(s, i, P1(_, _), P2(_, _), P3(_, _), P4(_, _), P5(_, _), P6(_, _),
        P7(_, _), P8(_, _), P9(_, _), P10(_, _), P11(_, _)) ==
    then(s, tuple10(s, i, P1, P2, P3, P4, P5, P6, P7, P8, P9, P10), P11)

tuple12(s, i, P1(_, _), P2(_, _), P3(_, _), P4(_, _), P5(_, _), P6(_, _),
        P7(_, _), P8(_, _), P9(_, _), P10(_, _), P11(_, _), P12(_, _)) ==
    then(s, tuple11(s, i, P1, P2, P3, P4, P5, P6, P7, P8, P9, P10, P11), P12)

tuple13(s, i, P1(_, _), P2(_, _), P3(_, _), P4(_, _), P5(_, _), P6(_, _),
        P7(_, _), P8(_, _), P9(_, _), P10(_, _), P11(_, _), P12(_, _),
        P13(_, _)) ==
    then(s, tuple12(s, i, P1, P2, P3, P4, P5, P6, P7, P8, P9, P10, P11,
        P12), P13)

\* opt(P): Some(value) when P matches, None and the cursor unmoved when it fails
\* an option that leaves the cursor where the attempt failed
opt_result_unrestored(i, r) ==
    IF r.ok THEN Ok(r.pos, <<r.val>>) ELSE Ok(r.pos, <<>>)

opt_result(i, r) ==
    IF r.ok THEN Ok(r.pos, <<r.val>>)
    ELSE IF is_error(r) THEN Ok(i, <<>>)
    ELSE r

opt(s, i, P(_, _)) == opt_result(i, P(s, i))

\* map(p, f): f on the value of a match
map(r, F(_)) == IF r.ok THEN Ok(r.pos, F(r.val)) ELSE r

\* map_res(p, f): f may refuse the value, which fails the parser where it began
map_res(i, r, F(_)) ==
    IF ~r.ok THEN r
    ELSE IF F(r.val) = <<>> THEN Err(i)
    ELSE Ok(r.pos, F(r.val)[1])

\* verify(p, f): the match is kept when f holds of its value
verify(i, r, F(_)) == IF r.ok /\ ~F(r.val) THEN Err(i) ELSE r

\* the value of the first match put before the values of the others
cons(v, m) == IF m.ok THEN Ok(m.pos, <<v>> \o m.val) ELSE m

\* many0(P): P is repeated until it fails; a match that reads nothing is an error
many0(s, i, P(_, _)) ==
    LET loop[j \in 1..(Len(s) + 1)] ==
            LET r == P(s, j)
            IN  IF is_error(r) THEN Ok(j, <<>>)
                ELSE IF ~r.ok THEN r
                ELSE IF r.pos = j THEN Err(j)
                ELSE cons(r.val, loop[r.pos])
    IN  loop[i]

\* many1(P): as many0, and the first P must match
many1_rest(s, r, P(_, _)) ==
    IF ~r.ok THEN r ELSE cons(r.val, many0(s, r.pos, P))

many1(s, i, P(_, _)) == many1_rest(s, P(s, i), P)

\* alt((p1, p2, ...)): the first parser that matches
alt(r1, r2) == IF is_error(r1) THEN r2 ELSE r1

\* preceded(p1, p2) after p1 returned r1: the result of p2 run where p1 ended
preceded(s, r1, P(_, _)) == IF r1.ok THEN P(s, r1.pos) ELSE r1

----------------------------------------------------------------------------
(* The grammar of src/src/parse.rs.                                        *)

\* comment keeping the text as take_until left it
comment_untrimmed(s, i) ==
    map(tuple4(s, i,
            LAMBDA s1, i1 : opt(s1, i1, indent),
            LAMBDA s1, i1 : char(s1, i1, "#"),
            take_until_newline,
            eol),
        LAMBDA v : v[3])

comment(s, i) ==
    map(tuple4(s, i,
            LAMBDA s1, i1 : opt(s1, i1, indent),
            LAMBDA s1, i1 : char(s1, i1, "#"),
            LAMBDA s1, i1 : map(take_until_newline(s1, i1), trim),
            eol),
        LAMBDA v : v[3])

\* the comment after any blank lines
comment_after_empty_lines(s, i) == preceded(s, empty_lines(s, i), comment)

\* map(many0(comment), Description)
description_across_empty_lines(s, i) == many0(s, i, comment_after_empty_lines)

description(s, i) == many0(s, i, comment)

----------------------------------------------------------------------------
(* usize: a value is kept as its decimal digits without leading zeros,     *)
(* which is what to_string writes; from_str rejects the empty text and a   *)
(* value above usize::MAX (64-bit target).                                 *)

USIZE_MAX == <<"1", "8", "4", "4", "6", "7", "4", "4", "0", "7",
               "3", "7", "0", "9", "5", "5", "1", "6", "1", "5">>

digit_value(c) ==
    CASE c = "0" -> 0 [] c = "1" -> 1 [] c = "2" -> 2 [] c = "3" -> 3
      [] c = "4" -> 4 [] c = "5" -> 5 [] c = "6" -> 6 [] c = "7" -> 7
      [] c = "8" -> 8 [] c = "9" -> 9

RECURSIVE strip_zeros(_)
strip_zeros(d) ==
    IF Len(d) > 1 /\ Head(d) = "0" THEN strip_zeros(Tail(d)) ELSE d

\* a <= b for two digit texts of the same length
RECURSIVE digits_le(_, _)
digits_le(a, b) ==
    IF a = <<>> THEN TRUE
    ELSE IF digit_value(Head(a)) < digit_value(Head(b)) THEN TRUE
    ELSE IF digit_value(Head(a)) > digit_value(Head(b)) THEN FALSE
    ELSE digits_le(Tail(a), Tail(b))

fits_usize(n) ==
    \/ Len(n) < Len(USIZE_MAX)
    \/ Len(n) = Len(USIZE_MAX) /\ digits_le(n, USIZE_MAX)

\* from_str with the digits taken as they are: no digit reads as 0 and a value
\* above usize::MAX is kept
from_str_lenient(d) == IF d = <<>> THEN <<<<"0">>>> ELSE <<strip_zeros(d)>>

\* <usize as FromStr>::from_str on a run of ASCII digits: the Result as an
\* Option, None for Err
from_str(d) ==
    IF d = <<>> \/ ~fits_usize(strip_zeros(d)) THEN <<>> ELSE <<strip_zeros(d)>>

\* map_res(take_while(|c| c.is_ascii_digit()), FromStr::from_str)
number(s, i) == map_res(i, take_while_digit(s, i), from_str)

\* tuple((indent, tag(keyword), char(' '), map_res(..), eol))
version_line(s, i, keyword) ==
    map(tuple5(s, i,
            indent,
            LAMBDA s1, i1 : tag(s1, i1, keyword),
            LAMBDA s1, i1 : char(s1, i1, " "),
            number,
            eol),
        LAMBDA v : v[4])

major_line(s, i) == version_line(s, i, K.major)
minor_line(s, i) == version_line(s, i, K.minor)

version(s, i) ==
    map(tuple4(s, i,
            LAMBDA s1, i1 : tag(s1, i1, K.version),
            eol,
            major_line,
            minor_line),
        LAMBDA v : [major |-> v[3], minor |-> v[4]])

----------------------------------------------------------------------------
(* The document model.  An Option is a sequence of length 0 (None) or 1    *)
(* (Some); a Box is the boxed value itself.  A Type is a record            *)
(*   [k, name, variants, of]                                               *)
(* k the variant of the Rust enum, name the identifier of a Ref, variants  *)
(* the Variants of an Enum, of the Option of the inner Type of an ArrayOf. *)

Scalar(k) == [k |-> k, name |-> <<>>, variants |-> <<>>, of |-> <<>>]
Enum(vs) == [k |-> "Enum", name |-> <<>>, variants |-> vs, of |-> <<>>]
Ref(id) == [k |-> "Ref", name |-> id, variants |-> <<>>, of |-> <<>>]
ArrayOf(t) == [k |-> "ArrayOf", name |-> <<>>, variants |-> <<>>, of |-> <<t>>]

\* Type::new(ty, is_array)
RECURSIVE Type_new(_, _)
Type_new(t, is_array) ==
    IF is_array THEN ArrayOf(Type_new(t, FALSE))
    ELSE IF t = K.enum THEN Enum(<<>>)
    ELSE IF t = K.integer THEN Scalar("Integer")
    ELSE IF t = K.number THEN Scalar("Number")
    ELSE IF t = K.boolean THEN Scalar("Boolean")
    ELSE IF t = K.string THEN Scalar("String")
    ELSE IF t = K.object THEN Scalar("Object")
    ELSE IF t = K.any THEN Scalar("Any")
    ELSE Ref(t)

ty(s, i) ==
    map(tuple2(s, i,
            LAMBDA s1, i1 : optional(s1, i1, K.array_of),
            take_while_not_whitespace),
        LAMBDA v : Type_new(v[2], v[1]))

\* verify(take_while(|c| !c.is_whitespace()), |s| !s.is_empty())
name_token(s, i) ==
    verify(i, take_while_not_whitespace(s, i), LAMBDA v : v # <<>>)

variant(s, i) ==
    map(tuple4(s, i,
            description,
            indent,
            name_token,
            eol),
        LAMBDA v : [description |-> v[1], name |-> v[3]])

\* the first statement of param: the head line, with the comment lines before it
param_head(s, i) ==
    map(tuple9(s, i,
            description,
            indent,
            LAMBDA s1, i1 : optional(s1, i1, K.experimental),
            LAMBDA s1, i1 : optional(s1, i1, K.deprecated),
            LAMBDA s1, i1 : optional(s1, i1, K.optional),
            ty,
            LAMBDA s1, i1 : char(s1, i1, " "),
            name_token,
            eol),
        LAMBDA v : [experimental |-> v[3], deprecated |-> v[4],
                    optional |-> v[5], ty |-> v[6],
                    description |-> v[1], name |-> v[8]])

\* a single variant read where many1(variant) reads them all
one_variant(s, i) == map(variant(s, i), LAMBDA v : <<v>>)

\* many0(variant): the variants may be none
many0_variant(s, i) == many0(s, i, variant)

\* many1(variant)
many1_variant(s, i) == many1(s, i, variant)

\* variants.append(&mut vars)
append_variants(h, vs) ==
    IF ~vs.ok THEN vs
    ELSE Ok(vs.pos, [h.val EXCEPT !.ty = Enum(h.val.ty.variants \o vs.val)])

\* the second statement of param: for a head of type Enum, the variants of
\* the lines after it
param_variants(s, h) ==
    IF ~h.ok THEN h
    ELSE IF h.val.ty.k = "Enum" THEN append_variants(h, many1_variant(s, h.pos))
    ELSE h

param(s, i) == param_variants(s, param_head(s, i))

\* many1(param)
many1_param(s, i) == many1(s, i, param)

\* tuple((indent, tag(keyword), eol)): the header line of a block
block_header(s, i, keyword) ==
    tuple3(s, i,
        indent,
        LAMBDA s1, i1 : tag(s1, i1, keyword),
        eol)

\* preceded(tuple((indent, tag("enum"), eol)), many1(variant))
enum_block(s, i) == preceded(s, block_header(s, i, K.enum), many1_variant)

\* preceded(tuple((indent, tag("properties"), eol)), many1(param))
properties_block(s, i) == preceded(s, block_header(s, i, K.properties), many1_param)

\* preceded(tuple((indent, tag("parameters"), eol)), many1(param))
parameters_block(s, i) == preceded(s, block_header(s, i, K.parameters), many1_param)

\* preceded(tuple((indent, tag("returns"), eol)), many1(param))
returns_block(s, i) == preceded(s, block_header(s, i, K.returns), many1_param)

ItemEnum(vs) == [k |-> "Enum", variants |-> vs, properties |-> <<>>]
ItemProperties(ps) == [k |-> "Properties", variants |-> <<>>, properties |-> ps]

\* alt of the enum block and the properties block
item(s, i) ==
    alt(map(enum_block(s, i), ItemEnum),
        map(properties_block(s, i), ItemProperties))

\* type_def with the modifier `optional ` read after `deprecated `
type_def_optional(s, i) ==
    map(then(s,
            tuple13(s, i,
                description,
                indent,
                LAMBDA s1, i1 : optional(s1, i1, K.experimental),
                LAMBDA s1, i1 : optional(s1, i1, K.deprecated),
                LAMBDA s1, i1 : optional(s1, i1, K.optional),
                LAMBDA s1, i1 : tag(s1, i1, K.type),
                LAMBDA s1, i1 : char(s1, i1, " "),
                take_while_not_whitespace,
                LAMBDA s1, i1 : char(s1, i1, " "),
                LAMBDA s1, i1 : tag(s1, i1, K.extends),
                LAMBDA s1, i1 : char(s1, i1, " "),
                ty,
                eol),
            LAMBDA s1, i1 : opt(s1, i1, item)),
        LAMBDA v : [description |-> v[1], experimental |-> v[3],
                    deprecated |-> v[4], id |-> v[8],
                    extends |-> v[12], item |-> v[14]])

type_def(s, i) ==
    map(tuple13(s, i,
            description,
            indent,
            LAMBDA s1, i1 : optional(s1, i1, K.experimental),
            LAMBDA s1, i1 : optional(s1, i1, K.deprecated),
            LAMBDA s1, i1 : tag(s1, i1, K.type),
            LAMBDA s1, i1 : char(s1, i1, " "),
            take_while_not_whitespace,
            LAMBDA s1, i1 : char(s1, i1, " "),
            LAMBDA s1, i1 : tag(s1, i1, K.extends),
            LAMBDA s1, i1 : char(s1, i1, " "),
            ty,
            eol,
            LAMBDA s1, i1 : opt(s1, i1, item)),
        LAMBDA v : [description |-> v[1], experimental |-> v[3],
                    deprecated |-> v[4], id |-> v[7],
                    extends |-> v[11], item |-> v[13]])

redirect(s, i) ==
    map(tuple6(s, i,
            description,
            indent,
            LAMBDA s1, i1 : tag(s1, i1, K.redirect),
            LAMBDA s1, i1 : char(s1, i1, " "),
            take_while_not_whitespace,
            eol),
        LAMBDA v : [description |-> v[1], to |-> v[5]])

\* Option<Vec<Param>>::unwrap_or_default
unwrap_or_default(o) == IF o = <<>> THEN <<>> ELSE o[1]

\* command with a parameters block that must be there
command_body_required(s, i) ==
    map(tuple12(s, i,
            description,
            indent,
            LAMBDA s1, i1 : optional(s1, i1, K.experimental),
            LAMBDA s1, i1 : optional(s1, i1, K.deprecated),
            LAMBDA s1, i1 : tag(s1, i1, K.command),
            LAMBDA s1, i1 : char(s1, i1, " "),
            take_until_newline,
            eol,
            LAMBDA s1, i1 : opt(s1, i1, redirect),
            parameters_block,
            empty_lines,
            LAMBDA s1, i1 : opt(s1, i1, returns_block)),
        LAMBDA v : [description |-> v[1], experimental |-> v[3],
                    deprecated |-> v[4], name |-> v[7],
                    redirect |-> v[9],
                    parameters |-> v[10],
                    returns |-> unwrap_or_default(v[12])])

command(s, i) ==
    map(tuple12(s, i,
            description,
            indent,
            LAMBDA s1, i1 : optional(s1, i1, K.experimental),
            LAMBDA s1, i1 : optional(s1, i1, K.deprecated),
            LAMBDA s1, i1 : tag(s1, i1, K.command),
            LAMBDA s1, i1 : char(s1, i1, " "),
            take_until_newline,
            eol,
            LAMBDA s1, i1 : opt(s1, i1, redirect),
            LAMBDA s1, i1 : opt(s1, i1, parameters_block),
            empty_lines,
            LAMBDA s1, i1 : opt(s1, i1, returns_block)),
        LAMBDA v : [description |-> v[1], experimental |-> v[3],
                    deprecated |-> v[4], name |-> v[7],
                    redirect |-> v[9],
                    parameters |-> unwrap_or_default(v[10]),
                    returns |-> unwrap_or_default(v[12])])

event(s, i) ==
    map(tuple9(s, i,
            description,
            indent,
            LAMBDA s1, i1 : optional(s1, i1, K.experimental),
            LAMBDA s1, i1 : optional(s1, i1, K.deprecated),
            LAMBDA s1, i1 : tag(s1, i1, K.event),
            LAMBDA s1, i1 : char(s1, i1, " "),
            take_until_newline,
            eol,
            LAMBDA s1, i1 : opt(s1, i1, parameters_block)),
        LAMBDA v : [description |-> v[1], experimental |-> v[3],
                    deprecated |-> v[4], name |-> v[7],
                    parameters |-> unwrap_or_default(v[9])])

depends_on(s, i) ==
    map(tuple5(s, i,
            indent,
            LAMBDA s1, i1 : tag(s1, i1, K.depends_on),
            LAMBDA s1, i1 : char(s1, i1, " "),
            take_while_not_whitespace,
            eol),
        LAMBDA v : v[4])

\* alt((map(type_def, Item::TypeDef), map(command, Item::Command),
\*      map(event, Item::Event)))
domain_alt(s, i) ==
    alt(map(type_def(s, i), LAMBDA v : [item |-> "TypeDef", v |-> v]),
        alt(map(command(s, i), LAMBDA v : [item |-> "Command", v |-> v]),
            map(event(s, i), LAMBDA v : [item |-> "Event", v |-> v])))

\* preceded(empty_lines, alt(...)): one child of a domain
domain_item(s, i) == preceded(s, empty_lines(s, i), domain_alt)

\* the children gathered kind by kind: many0(type_def), many0(command),
\* many0(event), each child after its empty lines
type_def_item(s, i) ==
    map(preceded(s, empty_lines(s, i), type_def),
        LAMBDA v : [item |-> "TypeDef", v |-> v])

command_item(s, i) ==
    map(preceded(s, empty_lines(s, i), command),
        LAMBDA v : [item |-> "Command", v |-> v])

event_item(s, i) ==
    map(preceded(s, empty_lines(s, i), event),
        LAMBDA v : [item |-> "Event", v |-> v])

domain_items_by_kind(s, i) ==
    map(tuple3(s, i,
            LAMBDA s1, i1 : many0(s1, i1, type_def_item),
            LAMBDA s1, i1 : many0(s1, i1, command_item),
            LAMBDA s1, i1 : many0(s1, i1, event_item)),
        LAMBDA v : v[1] \o v[2] \o v[3])

\* many0(preceded(empty_lines, alt(...))): the children of a domain
domain_items(s, i) == many0(s, i, domain_item)

\* the fold of domain: the items of one kind, in the order they were parsed
RECURSIVE items_of(_, _)
items_of(items, kind) ==
    IF items = <<>> THEN <<>>
    ELSE IF Head(items).item = kind
    THEN <<Head(items).v>> \o items_of(Tail(items), kind)
    ELSE items_of(Tail(items), kind)

\* many0(depends_on)
many0_depends_on(s, i) == many0(s, i, depends_on)

\* domain reading `deprecated ` before `experimental ` as well as after it
domain_any_order(s, i) ==
    map(tuple10(s, i,
            description,
            LAMBDA s1, i1 : optional(s1, i1, K.deprecated),
            LAMBDA s1, i1 : optional(s1, i1, K.experimental),
            LAMBDA s1, i1 : optional(s1, i1, K.deprecated),
            LAMBDA s1, i1 : tag(s1, i1, K.domain),
            LAMBDA s1, i1 : char(s1, i1, " "),
            take_until_newline,
            eol,
            many0_depends_on,
            domain_items),
        LAMBDA v : [description |-> v[1], experimental |-> v[3],
                    deprecated |-> v[2] \/ v[4], name |-> v[7],
                    dependencies |-> v[9],
                    types |-> items_of(v[10], "TypeDef"),
                    commands |-> items_of(v[10], "Command"),
                    events |-> items_of(v[10], "Event")])

domain(s, i) ==
    map(tuple9(s, i,
            description,
            LAMBDA s1, i1 : optional(s1, i1, K.experimental),
            LAMBDA s1, i1 : optional(s1, i1, K.deprecated),
            LAMBDA s1, i1 : tag(s1, i1, K.domain),
            LAMBDA s1, i1 : char(s1, i1, " "),
            take_until_newline,
            eol,
            many0_depends_on,
            domain_items),
        LAMBDA v : [description |-> v[1], experimental |-> v[2],
                    deprecated |-> v[3], name |-> v[6],
                    dependencies |-> v[8],
                    types |-> items_of(v[9], "TypeDef"),
                    commands |-> items_of(v[9], "Command"),
                    events |-> items_of(v[9], "Event")])

\* preceded(empty_lines, domain)
protocol_domain(s, i) == preceded(s, empty_lines(s, i), domain)

\* many0(preceded(empty_lines, domain)): the domains may be none
many0_domain(s, i) == many0(s, i, protocol_domain)

\* many1(preceded(empty_lines, domain))
many1_domain(s, i) == many1(s, i, protocol_domain)

\* all_consuming(p): a match that leaves text unread is an error
all_consuming(s, r) == IF r.ok /\ r.pos <= Len(s) THEN Err(r.pos) ELSE r

protocol_all_consuming(s, i) ==
    all_consuming(s,
        map(tuple4(s, i,
                description,
                empty_lines,
                version,
                many1_domain),
            LAMBDA v : [description |-> v[1], version |-> v[3],
                        domains |-> v[4]]))

protocol(s, i) ==
    map(tuple4(s, i,
            description,
            empty_lines,
            version,
            many1_domain),
        LAMBDA v : [description |-> v[1], version |-> v[3],
                    domains |-> v[4]])

\* pub fn parse: protocol on the whole buffer
parse(s) == protocol(s, 1)

----------------------------------------------------------------------------
(* The older parser kept in src/src/lib.rs: param and what it calls.       *)

\* the cursor after the longest run of spaces, tabs, "\r" and "\n" at i
RECURSIVE span_multispace(_, _)
span_multispace(s, i) ==
    IF i <= Len(s) /\ s[i] \in {" ", "\t", "\r", "\n"}
    THEN span_multispace(s, i + 1)
    ELSE i

\* nom::character::complete::multispace0: never fails, may match nothing
multispace0(s, i) ==
    LET j == span_multispace(s, i) IN Ok(j, SubSeq(s, i, j - 1))

\* nom::character::complete::multispace1: one or more
multispace1(s, i) ==
    LET j == span_multispace(s, i)
    IN  IF j > i THEN Ok(j, SubSeq(s, i, j - 1)) ELSE Err(i)

\* nom::character::complete::space1: one or more spaces or tabs
space1(s, i) ==
    LET j == span_blank(s, i)
    IN  IF j > i THEN Ok(j, SubSeq(s, i, j - 1)) ELSE Err(i)

\* lib.rs optional: map(opt(pair(tag(name), space1)), |v| v.is_some())
lib_optional_space(s, i, t) ==
    optional_found(i, t, IF t.ok THEN space1(s, t.pos) ELSE t)

lib_optional(s, i, name) == lib_optional_space(s, i, tag(s, i, name))

\* lib.rs comment
lib_comment(s, i) ==
    map(tuple4(s, i,
            multispace0,
            LAMBDA s1, i1 : char(s1, i1, "#"),
            LAMBDA s1, i1 : map(take_until_newline(s1, i1), trim),
            LAMBDA s1, i1 : char(s1, i1, "\n")),
        LAMBDA v : v[3])

\* lib.rs description: many0(comment)
lib_description(s, i) == many0(s, i, lib_comment)

\* Ty::new(ty, is_array): the table of Type::new
Ty_new(t, is_array) == Type_new(t, is_array)

\* lib.rs ty
lib_ty(s, i) ==
    map(tuple2(s, i,
            LAMBDA s1, i1 : lib_optional(s1, i1, K.array_of),
            take_while_not_whitespace),
        LAMBDA v : Ty_new(v[2], v[1]))

\* lib.rs variant
lib_variant(s, i) ==
    map(tuple3(s, i,
            lib_description,
            multispace1,
            take_until_newline),
        LAMBDA v : [description |-> v[1], name |-> v[3]])

\* the first statement of lib.rs param; the closure takes the fourth value
\* of the tuple as optional and the fifth as deprecated
lib_param_head(s, i) ==
    map(tuple8(s, i,
            lib_description,
            multispace1,
            LAMBDA s1, i1 : lib_optional(s1, i1, K.experimental),
            LAMBDA s1, i1 : lib_optional(s1, i1, K.deprecated),
            LAMBDA s1, i1 : lib_optional(s1, i1, K.optional),
            lib_ty,
            space1,
            take_while_not_whitespace),
        LAMBDA v : [experimental |-> v[3], optional |-> v[4],
                    deprecated |-> v[5], ty |-> v[6],
                    description |-> v[1], name |-> v[8]])

\* many1(variant)
lib_many1_variant(s, i) == many1(s, i, lib_variant)

\* the second statement of lib.rs param
lib_param_variants(s, h) ==
    IF ~h.ok THEN h
    ELSE IF h.val.ty.k = "Enum"
    THEN append_variants(h, lib_many1_variant(s, h.pos))
    ELSE h

lib_param(s, i) == lib_param_variants(s, lib_param_head(s, i))

----------------------------------------------------------------------------
(* The JSON renderer: src/src/ser.rs.  A JSON value is what the calls on   *)
(* the Serializer build: a string (serialize_str), null (serialize_none),  *)
(* true (serialize_bool), a number, an array (serialize_seq) or an object, *)
(* the entries of serialize_map in the order they are written.             *)

JStr(s) == [j |-> "string", s |-> s, items |-> <<>>]
JNum(s) == [j |-> "number", s |-> s, items |-> <<>>]
JNull == [j |-> "null", s |-> <<>>, items |-> <<>>]
JTrue == [j |-> "true", s |-> <<>>, items |-> <<>>]
JFalse == [j |-> "false", s |-> <<>>, items |-> <<>>]
JArr(xs) == [j |-> "array", s |-> <<>>, items |-> xs]
JObj(es) == [j |-> "object", s |-> <<>>, items |-> es]
Entry(k, v) == [key |-> k, value |-> v]

\* usize::to_string: the decimal digits, most significant first
digit_char(d) == <<"0", "1", "2", "3", "4", "5", "6", "7", "8", "9">>[d + 1]

RECURSIVE to_string(_)
to_string(n) ==
    IF n < 10 THEN <<digit_char(n)>>
    ELSE to_string(n \div 10) \o <<digit_char(n % 10)>>

\* [&str]::join(sep)
RECURSIVE join(_, _)
join(d, sep) ==
    IF d = <<>> THEN <<>>
    ELSE IF Len(d) = 1 THEN d[1]
    ELSE d[1] \o sep \o join(Tail(d), sep)

\* serialize_usize written with serialize_u64
serialize_usize_as_number(n) == JNum(to_string(n))

serialize_usize(n) == JStr(to_string(n))

\* serialize_description writing the lines one after the other
serialize_description_concat(d) == JStr(join(d, <<>>))

serialize_description(d) == JStr(join(d, <<" ">>))

serialize_enum(variants) ==
    JArr([k \in 1..Len(variants) |-> JStr(variants[k].name)])

\* serialize_redirect writing the whole Redirect
serialize_redirect_whole(r) ==
    IF r # <<>>
    THEN JObj(<<Entry("to", JStr(r[1].to)),
                Entry("description", serialize_description(r[1].description))>>)
    ELSE JNull

serialize_redirect(r) == IF r # <<>> THEN JStr(r[1].to) ELSE JNull

\* is_false keeping every flag
is_false_never(v) == FALSE

is_false(v) == ~v

\* impl Serialize for Ty with the items of an array left as they are named
RECURSIVE serialize_Ty_flat(_)
serialize_Ty_flat(t) ==
    CASE t.k = "Integer" -> JObj(<<Entry("type", JStr(K.integer))>>)
      [] t.k = "Number" -> JObj(<<Entry("type", JStr(K.number))>>)
      [] t.k = "Boolean" -> JObj(<<Entry("type", JStr(K.boolean))>>)
      [] t.k = "String" -> JObj(<<Entry("type", JStr(K.string))>>)
      [] t.k = "Object" -> JObj(<<Entry("type", JStr(K.object))>>)
      [] t.k = "Any" -> JObj(<<Entry("type", JStr(K.any))>>)
      [] t.k = "Enum" ->
             JObj(<<Entry("type", JStr(K.string)),
                    Entry("enum", JArr([k \in 1..Len(t.variants) |->
                                           JStr(t.variants[k].name)]))>>)
      [] t.k = "ArrayOf" ->
             JObj(<<Entry("type", JStr(<<"a", "r", "r", "a", "y">>)),
                    Entry("items", IF t.of[1].k = "ArrayOf"
                                   THEN JObj(<<Entry("type",
                                       JStr(<<"a", "r", "r", "a", "y">>))>>)
                                   ELSE serialize_Ty_flat(t.of[1]))>>)
      [] t.k = "Ref" -> JObj(<<Entry("$ref", JStr(t.name))>>)

\* impl Serialize for Ty
RECURSIVE serialize_Ty(_)
serialize_Ty(t) ==
    CASE t.k = "Integer" -> JObj(<<Entry("type", JStr(K.integer))>>)
      [] t.k = "Number" -> JObj(<<Entry("type", JStr(K.number))>>)
      [] t.k = "Boolean" -> JObj(<<Entry("type", JStr(K.boolean))>>)
      [] t.k = "String" -> JObj(<<Entry("type", JStr(K.string))>>)
      [] t.k = "Object" -> JObj(<<Entry("type", JStr(K.object))>>)
      [] t.k = "Any" -> JObj(<<Entry("type", JStr(K.any))>>)
      [] t.k = "Enum" ->
             JObj(<<Entry("type", JStr(K.string)),
                    Entry("enum", JArr([k \in 1..Len(t.variants) |->
                                           JStr(t.variants[k].name)]))>>)
      [] t.k = "ArrayOf" ->
             JObj(<<Entry("type", JStr(<<"a", "r", "r", "a", "y">>)),
                    Entry("items", serialize_Ty(t.of[1]))>>)
      [] t.k = "Ref" -> JObj(<<Entry("$ref", JStr(t.name))>>)

\* the entries the derived serializers write for a declaration: a flag is
\* skipped when is_false holds of it, a description when it is empty
flag_entry(key, v) == IF is_false(v) THEN <<>> ELSE <<Entry(key, JTrue)>>

description_entry(d) ==
    IF d = <<>> THEN <<>> ELSE <<Entry("description", serialize_description(d))>>

\* a list is skipped when it is empty
list_entry(key, xs) == IF xs = <<>> THEN <<>> ELSE <<Entry(key, JArr(xs))>>

\* a Param: its name, description and flags, and the entries of its type
serialize_Param(p) ==
    JObj(<<Entry("name", JStr(p.name))>>
         \o description_entry(p.description)
         \o flag_entry("experimental", p.experimental)
         \o flag_entry("deprecated", p.deprecated)
         \o flag_entry("optional", p.optional)
         \o serialize_Ty(p.ty).items)

serialize_Params(ps) == [k \in 1..Len(ps) |-> serialize_Param(ps[k])]

\* a TypeDef: id, description and flags, the entries of the type it extends
\* and its item
serialize_TypeDef(d) ==
    JObj(<<Entry("id", JStr(d.id))>>
         \o description_entry(d.description)
         \o flag_entry("experimental", d.experimental)
         \o flag_entry("deprecated", d.deprecated)
         \o serialize_Ty(d.extends).items
         \o (IF d.item = <<>> THEN <<>>
             ELSE IF d.item[1].k = "Enum"
             THEN <<Entry("enum", serialize_enum(d.item[1].variants))>>
             ELSE <<Entry("properties",
                          JArr(serialize_Params(d.item[1].properties)))>>))

serialize_Command(c) ==
    JObj(<<Entry("name", JStr(c.name))>>
         \o description_entry(c.description)
         \o flag_entry("experimental", c.experimental)
         \o flag_entry("deprecated", c.deprecated)
         \o (IF c.redirect = <<>> THEN <<>>
             ELSE <<Entry("redirect", serialize_redirect(c.redirect))>>)
         \o list_entry("parameters", serialize_Params(c.parameters))
         \o list_entry("returns", serialize_Params(c.returns)))

serialize_Event(e) ==
    JObj(<<Entry("name", JStr(e.name))>>
         \o description_entry(e.description)
         \o flag_entry("experimental", e.experimental)
         \o flag_entry("deprecated", e.deprecated)
         \o list_entry("parameters", serialize_Params(e.parameters)))

----------------------------------------------------------------------------
(* The canonical-text renderer: the Display implementations.  Each         *)
(* operator is the text its fmt writes.                                    *)

\* indented::indented_with(data, Space2), on the text data writes: two
\* spaces before the first character of every line that has one
indent_writer(t, is_new_line) ==
    Cat([k \in 1..Len(t) |->
            IF t[k] = "\n" THEN <<"\n">>
            ELSE IF (k = 1 /\ is_new_line) \/ (k > 1 /\ t[k - 1] = "\n")
                 THEN <<" ", " ", t[k]>>
                 ELSE <<t[k]>>])

indented(t) == indent_writer(t, TRUE)

\* writeln!(f, "# {}", comment) for every comment
fmt_Description(d) ==
    Cat([k \in 1..Len(d) |-> <<"#", " ">> \o d[k] \o <<"\n">>])

\* writeln!(f, "version\n  major {}\n  minor {}", major, minor)
fmt_Version(v) ==
    K.version \o <<"\n", " ", " ">> \o K.major \o <<" ">> \o v.major
    \o <<"\n", " ", " ">> \o K.minor \o <<" ">> \o v.minor \o <<"\n">>

RECURSIVE fmt_Type(_)
fmt_Type(t) ==
    CASE t.k = "Enum" -> K.enum
      [] t.k = "Integer" -> K.integer
      [] t.k = "Number" -> K.number
      [] t.k = "Boolean" -> K.boolean
      [] t.k = "String" -> K.string
      [] t.k = "Object" -> K.object
      [] t.k = "Any" -> K.any
      [] t.k = "Binary" -> K.binary
      [] t.k = "ArrayOf" -> K.array_of \o <<" ">> \o fmt_Type(t.of[1])
      [] t.k = "Ref" -> t.name

\* "experimental " when the flag is set
fmt_flag(flag, keyword) == IF flag THEN keyword \o <<" ">> ELSE <<>>

fmt_Variant(v) == fmt_Description(v.description) \o v.name

\* struct Enum(Option<&str>, &[Variant]); name is the Option
fmt_Enum(name, variants) ==
    (IF name # <<>> THEN name[1] \o <<"\n">> ELSE <<>>)
    \o Cat([k \in 1..Len(variants) |->
                   indented(fmt_Variant(variants[k])) \o <<"\n">>])

fmt_Param(p) ==
    fmt_Description(p.description)
    \o fmt_flag(p.experimental, K.experimental)
    \o fmt_flag(p.deprecated, K.deprecated)
    \o fmt_flag(p.optional, K.optional)
    \o fmt_Type(p.ty) \o <<" ">> \o p.name \o <<"\n">>
    \o (IF p.ty.k = "Enum" THEN fmt_Enum(<<>>, p.ty.variants) ELSE <<>>)

\* struct Params(&str, &[Param])
fmt_Params(name, params) ==
    name \o <<"\n">>
    \o Cat([k \in 1..Len(params) |-> indented(fmt_Param(params[k]))])

fmt_Item(it) ==
    IF it.k = "Enum" THEN fmt_Enum(<<K.enum>>, it.variants)
    ELSE fmt_Params(K.properties, it.properties)

fmt_TypeDef(t) ==
    fmt_Description(t.description)
    \o fmt_flag(t.experimental, K.experimental)
    \o fmt_flag(t.deprecated, K.deprecated)
    \o K.type \o <<" ">> \o t.id \o <<" ">> \o K.extends \o <<" ">>
    \o fmt_Type(t.extends) \o <<"\n">>
    \o (IF t.item # <<>> THEN indented(fmt_Item(t.item[1])) ELSE <<>>)

fmt_Redirect(r) ==
    fmt_Description(r.description) \o K.redirect \o <<" ">> \o r.to \o <<"\n">>

fmt_Command(c) ==
    fmt_Description(c.description)
    \o fmt_flag(c.experimental, K.experimental)
    \o fmt_flag(c.deprecated, K.deprecated)
    \o K.command \o <<" ">> \o c.name \o <<"\n">>
    \o (IF c.redirect # <<>> THEN indented(fmt_Redirect(c.redirect[1])) ELSE <<>>)
    \o (IF c.parameters # <<>>
        THEN indented(fmt_Params(K.parameters, c.parameters)) ELSE <<>>)
    \o (IF c.returns # <<>>
        THEN indented(fmt_Params(K.returns, c.returns)) ELSE <<>>)

fmt_Event(e) ==
    fmt_Description(e.description)
    \o fmt_flag(e.experimental, K.experimental)
    \o fmt_flag(e.deprecated, K.deprecated)
    \o K.event \o <<" ">> \o e.name \o <<"\n">>
    \o (IF e.parameters # <<>>
        THEN indented(fmt_Params(K.parameters, e.parameters)) ELSE <<>>)

fmt_Domain(d) ==
    fmt_Description(d.description)
    \o fmt_flag(d.experimental, K.experimental)
    \o fmt_flag(d.deprecated, K.deprecated)
    \o K.domain \o <<" ">> \o d.name \o <<"\n">>
    \o Cat([k \in 1..Len(d.dependencies) |->
                   indented(K.depends_on \o <<" ">> \o d.dependencies[k]) \o <<"\n">>])
    \o <<"\n">>
    \o Cat([k \in 1..Len(d.types) |-> indented(fmt_TypeDef(d.types[k])) \o <<"\n">>])
    \o Cat([k \in 1..Len(d.commands) |-> indented(fmt_Command(d.commands[k])) \o <<"\n">>])
    \o Cat([k \in 1..Len(d.events) |-> indented(fmt_Event(d.events[k])) \o <<"\n">>])

fmt_Protocol(p) ==
    fmt_Description(p.description)
    \o fmt_Version(p.version) \o <<"\n">>
    \o Cat([k \in 1..Len(p.domains) |-> fmt_Domain(p.domains[k])])

----------------------------------------------------------------------------
(* The Markdown renderer: mod markdown of src/examples/parser.rs.  Each    *)
(* operator is the text its writeln! calls write.                          *)

MD_TABLE_HEAD ==
    <<"_", "\n", "\n", "|", " ", "N", "a", "m", "e", " ", "|", " ", "T",
          "y", "p", "e", " ", "|", " ", "D", "e", "s", "c", "r", "i", "p",
          "t", "i", "o", "n", " ", "|", "\n", "|", " ", "-", "-", "-", "-",
          ":", "|", ":", "-", "-", "-", "-", " ", "|", " ", ":", "-", "-",
          "-", "-", "-", "-", "-", "-", "-", "-", " ", "|", "\n">>

MD_OPTIONAL ==
    <<" ", "<", "b", "r", "/", ">", " ", "_", "o", "p", "t", "i", "o", "n",
          "a", "l", "_", " ">>

MD_EXPERIMENTAL ==
    <<" ", "*", "*", "_", "E", "X", "P", "E", "R", "I", "M", "E", "N", "T",
          "A", "L", "_", "*", "*">>

MD_DEPRECATED ==
    <<" ", "*", "*", "_", "D", "E", "P", "R", "E", "C", "A", "T", "E", "D",
          "_", "*", "*">>

MD_VERSION ==
    <<"\n", "\n", "v", "e", "r", "s", "i", "o", "n", ":", " ">>

MD_DOMAIN ==
    <<" ", "D", "o", "m", "a", "i", "n", "\n", "\n">>

MD_METHODS ==
    <<"#", "#", "#", " ", "M", "e", "t", "h", "o", "d", "s", "\n", "\n">>

MD_TYPES ==
    <<"#", "#", "#", " ", "T", "y", "p", "e", "s", "\n", "\n">>

MD_EVENTS ==
    <<"#", "#", "#", " ", "E", "v", "e", "n", "t", "s", "\n", "\n">>

MD_RULE ==
    <<"-", "-", "-", "\n", "\n">>

MD_TYPE ==
    <<"\n", "T", "y", "p", "e", ":", " ", "*", "*">>

MD_ALLOWED_VALUES ==
    <<"_", "A", "L", "L", "O", "W", "E", "D", " ", "V", "A", "L", "U", "E",
          "S", "_">>

MD_VALUES_HEAD ==
    <<"\n", "\n", "|", " ", "N", "a", "m", "e", " ", "|", " ", "D", "e",
          "s", "c", "r", "i", "p", "t", "i", "o", "n", " ", "|", "\n", "|",
          " ", "-", "-", "-", "-", ":", "|", ":", "-", "-", "-", "-", "-",
          "-", "-", "-", "-", "-", "-", " ", "|", "\n">>

PARAMETERS ==
    <<"P", "a", "r", "a", "m", "e", "t", "e", "r", "s">>

RETURN_OBJECT ==
    <<"R", "e", "t", "u", "r", "n", " ", "O", "b", "j", "e", "c", "t">>

PROPERTIES ==
    <<"P", "r", "o", "p", "e", "r", "t", "i", "e", "s">>

LOWER ==
    <<"a", "b", "c", "d", "e", "f", "g", "h", "i", "j", "k", "l", "m", "n",
          "o", "p", "q", "r", "s", "t", "u", "v", "w", "x", "y", "z">>

UPPER ==
    <<"A", "B", "C", "D", "E", "F", "G", "H", "I", "J", "K", "L", "M", "N",
          "O", "P", "Q", "R", "S", "T", "U", "V", "W", "X", "Y", "Z">>

\* the grave accent (U+0060) around a name in a table cell
GRAVE == "grave"

\* str::to_uppercase on ASCII text
upper_char(c) ==
    IF \E k \in 1..Len(LOWER) : LOWER[k] = c
    THEN UPPER[CHOOSE k \in 1..Len(LOWER) : LOWER[k] = c]
    ELSE c

to_uppercase(s) == [k \in 1..Len(s) |-> upper_char(s[k])]

\* the description cell: "" for an empty description, else _<lines joined>_
md_description(d) ==
    IF d = <<>> THEN <<>> ELSE <<"_">> \o join(d, <<" ">>) \o <<"_">>

\* the badges of a declaration
md_badges(experimental, deprecated) ==
    (IF experimental THEN MD_EXPERIMENTAL ELSE <<>>)
    \o (IF deprecated THEN MD_DEPRECATED ELSE <<>>)

\* one row of write_params
md_param_row(p) ==
    <<"|", " ", GRAVE>> \o p.name \o <<GRAVE>>
    \o (IF p.optional THEN MD_OPTIONAL ELSE <<>>)
    \o <<" ", "|", " ", "*", "*">> \o fmt_Type(p.ty)
    \o <<"*", "*", " ", "|", " ">> \o md_description(p.description)
    \o md_badges(p.experimental, p.deprecated) \o <<" ", "|", "\n">>

\* markdown::write_params(w, name, params)
write_params(name, params) ==
    IF params # <<>>
    THEN <<"_">> \o to_uppercase(name) \o MD_TABLE_HEAD
         \o Cat([k \in 1..Len(params) |-> md_param_row(params[k])])
         \o <<"\n">>
    ELSE <<>>

\* one row of the ALLOWED VALUES table
md_variant_row(v) ==
    <<"|", " ", GRAVE>> \o v.name \o <<GRAVE, " ", "|", " ">>
    \o md_description(v.description) \o <<" ", "|", "\n">>

\* the head of a member of a domain: its qualified name, description, badges
md_member_head(domain_name, name, d, experimental, deprecated) ==
    <<"_">> \o domain_name \o <<".", "_", "*", "*">> \o name
    \o <<"*", "*", "\n", "\n">>
    \o <<">", " ">> \o join(d, <<" ">>) \o <<"\n">>
    \o <<">">> \o md_badges(experimental, deprecated) \o <<"\n", "\n">>

md_command(domain_name, c) ==
    md_member_head(domain_name, c.name, c.description, c.experimental,
                   c.deprecated)
    \o write_params(PARAMETERS, c.parameters)
    \o write_params(RETURN_OBJECT, c.returns)
    \o MD_RULE

md_type(domain_name, d) ==
    md_member_head(domain_name, d.id, d.description, d.experimental,
                   d.deprecated)
    \o MD_TYPE \o fmt_Type(d.extends) \o <<"*", "*", "\n", "\n">>
    \o (IF d.item = <<>> THEN <<>>
        ELSE IF d.item[1].k = "Enum"
        THEN MD_ALLOWED_VALUES \o MD_VALUES_HEAD
             \o Cat([k \in 1..Len(d.item[1].variants) |->
                        md_variant_row(d.item[1].variants[k])])
        ELSE write_params(PROPERTIES, d.item[1].properties))
    \o MD_RULE

md_event(domain_name, e) ==
    md_member_head(domain_name, e.name, e.description, e.experimental,
                   e.deprecated)
    \o write_params(PARAMETERS, e.parameters)

md_domain(d) ==
    <<"#", "#", " ">> \o d.name \o MD_DOMAIN
    \o <<">", " ">> \o join(d.description, <<" ">>) \o <<"\n">>
    \o <<">">> \o md_badges(d.experimental, d.deprecated) \o <<"\n", "\n">>
    \o (IF d.commands # <<>>
        THEN MD_METHODS
             \o Cat([k \in 1..Len(d.commands) |-> md_command(d.name, d.commands[k])])
        ELSE <<>>)
    \o (IF d.types # <<>>
        THEN MD_TYPES
             \o Cat([k \in 1..Len(d.types) |-> md_type(d.name, d.types[k])])
             \o <<"\n">>
        ELSE <<>>)
    \o (IF d.events # <<>>
        THEN MD_EVENTS
             \o Cat([k \in 1..Len(d.events) |-> md_event(d.name, d.events[k])])
             \o MD_RULE
        ELSE <<>>)

\* markdown::render(w, name, proto)
render(name, proto) ==
    <<"#", " ">> \o name \o MD_VERSION \o proto.version.major \o <<".">>
    \o proto.version.minor \o <<"\n", "\n">>
    \o Cat([k \in 1..Len(proto.domains) |-> md_domain(proto.domains[k])])

----------------------------------------------------------------------------
(* The texts the parsers are run on.  A buffer is written piece by piece   *)
(* from a catalogue; each catalogue entry records, beside its text, what   *)
(* the writer meant the piece to be.                                       *)

SP == <<" ">>
NL == <<"\n">>
TAB == <<"\t">>
IND == <<" ", " ">>

NoResult == [ok |-> FALSE, pos |-> 0, val |-> <<>>]

\* the pieces tried on version: the three lines of a version block, well
\* formed and with each deviation
VersionCatalog == <<
    \* "version\n"
    [kind |-> "version", good |-> TRUE, num |-> <<>>,
     txt |-> Cat(<<K.version, NL>>)],
    \* "  major 1\n"
    [kind |-> "major", good |-> TRUE, num |-> <<"1">>,
     txt |-> Cat(<<IND, K.major, SP, <<"1">>, NL>>)],
    \* "  minor 3\n"
    [kind |-> "minor", good |-> TRUE, num |-> <<"3">>,
     txt |-> Cat(<<IND, K.minor, SP, <<"3">>, NL>>)],
    \* "\tmajor 007\n": a tab as indent, leading zeros
    [kind |-> "major", good |-> TRUE, num |-> <<"7">>,
     txt |-> Cat(<<TAB, K.major, SP, <<"0", "0", "7">>, NL>>)],
    \* " \t minor 18446744073709551615\n": usize::MAX
    [kind |-> "minor", good |-> TRUE, num |-> USIZE_MAX,
     txt |-> Cat(<<SP, TAB, SP, K.minor, SP, USIZE_MAX, NL>>)],
    \* "  minor 18446744073709551616\n": usize::MAX + 1
    [kind |-> "minor", good |-> FALSE, num |-> <<>>,
     txt |-> Cat(<<IND, K.minor, SP,
                   SubSeq(USIZE_MAX, 1, Len(USIZE_MAX) - 1), <<"6">>, NL>>)],
    \* "major 1\n": no indent
    [kind |-> "major", good |-> FALSE, num |-> <<>>,
     txt |-> Cat(<<K.major, SP, <<"1">>, NL>>)],
    \* "  major \n": no digits
    [kind |-> "major", good |-> FALSE, num |-> <<>>,
     txt |-> Cat(<<IND, K.major, SP, NL>>)],
    \* "  minor 3 x\n": text after the digits
    [kind |-> "minor", good |-> FALSE, num |-> <<>>,
     txt |-> Cat(<<IND, K.minor, SP, <<"3">>, SP, <<"x">>, NL>>)],
    \* "  major  1\n": two spaces after the keyword
    [kind |-> "major", good |-> FALSE, num |-> <<>>,
     txt |-> Cat(<<IND, K.major, SP, SP, <<"1">>, NL>>)],
    \* "version 1\n": text after the keyword
    [kind |-> "version", good |-> FALSE, num |-> <<>>,
     txt |-> Cat(<<K.version, SP, <<"1">>, NL>>)],
    \* "\n"
    [kind |-> "blank", good |-> FALSE, num |-> <<>>, txt |-> NL]
>>

MaxVersionChunks == 3

\* the pieces tried on ty: the `array of ` prefix, identifiers with the Type
\* the lexical table of the specification gives them, and what may follow
TyCatalog == <<
    [kind |-> "array_of", ty |-> <<>>, txt |-> Cat(<<K.array_of, SP>>)],
    [kind |-> "ident", ty |-> <<Enum(<<>>)>>, txt |-> K.enum],
    [kind |-> "ident", ty |-> <<Scalar("Integer")>>, txt |-> K.integer],
    [kind |-> "ident", ty |-> <<Scalar("Number")>>, txt |-> K.number],
    [kind |-> "ident", ty |-> <<Scalar("Boolean")>>, txt |-> K.boolean],
    [kind |-> "ident", ty |-> <<Scalar("String")>>, txt |-> K.string],
    [kind |-> "ident", ty |-> <<Scalar("Object")>>, txt |-> K.object],
    [kind |-> "ident", ty |-> <<Scalar("Any")>>, txt |-> K.any],
    [kind |-> "ident", ty |-> <<Scalar("Binary")>>, txt |-> K.binary],
    [kind |-> "ident", ty |-> <<Ref(<<"N", "o", "d", "e">>)>>,
     txt |-> <<"N", "o", "d", "e">>],
    [kind |-> "ident", ty |-> <<Ref(<<"S", "t", "r", "i", "n", "g">>)>>,
     txt |-> <<"S", "t", "r", "i", "n", "g">>],
    \* " x": a space and the name of a Param
    [kind |-> "end", ty |-> <<>>, txt |-> Cat(<<SP, <<"x">>>>)],
    \* "\n"
    [kind |-> "end", ty |-> <<>>, txt |-> NL]
>>

MaxTyChunks == 3

\* the lines tried on param
ParamCatalog == <<
    \* "  string x\n"
    [kind |-> "param", name |-> <<"x">>,
     txt |-> Cat(<<IND, K.string, SP, <<"x">>, NL>>)],
    \* "  enum type\n"
    [kind |-> "enum_param", name |-> K.type,
     txt |-> Cat(<<IND, K.enum, SP, K.type, NL>>)],
    \* "  optional array of Node y\n"
    [kind |-> "param", name |-> <<"y">>,
     txt |-> Cat(<<IND, K.optional, SP, K.array_of, SP,
                   <<"N", "o", "d", "e">>, SP, <<"y">>, NL>>)],
    \* "  array of array of string z\n"
    [kind |-> "nested_array", name |-> <<"z">>,
     txt |-> Cat(<<IND, K.array_of, SP, K.array_of, SP, K.string, SP, <<"z">>, NL>>)],
    \* "    a\n"
    [kind |-> "token", name |-> <<"a">>, txt |-> Cat(<<IND, IND, <<"a">>, NL>>)],
    \* "\tb\n"
    [kind |-> "token", name |-> <<"b">>, txt |-> Cat(<<TAB, <<"b">>, NL>>)],
    \* "  returns\n"
    [kind |-> "token", name |-> K.returns, txt |-> Cat(<<IND, K.returns, NL>>)],
    \* "    # about \n"
    [kind |-> "comment", name |-> <<"a", "b", "o", "u", "t">>,
     txt |-> Cat(<<IND, IND, <<"#", " ", "a", "b", "o", "u", "t", " ">>, NL>>)],
    \* "\n"
    [kind |-> "blank", name |-> <<>>, txt |-> NL],
    \* "  experimental deprecated optional integer n\n"
    [kind |-> "param", name |-> <<"n">>,
     txt |-> Cat(<<IND, K.experimental, SP, K.deprecated, SP, K.optional, SP,
                   K.integer, SP, <<"n">>, NL>>)]
>>

MaxParamChunks == 4

\* the lines tried on type_def
TypeDefCatalog == <<
    \* "  type T extends string\n"
    [kind |-> "type", name |-> <<"T">>,
     txt |-> Cat(<<IND, K.type, SP, <<"T">>, SP, K.extends, SP, K.string, NL>>)],
    \* "  experimental deprecated type V extends array of integer\n"
    [kind |-> "type", name |-> <<"V">>,
     txt |-> Cat(<<IND, K.experimental, SP, K.deprecated, SP, K.type, SP, <<"V">>,
                   SP, K.extends, SP, K.array_of, SP, K.integer, NL>>)],
    \* "  type U extends array of array of string\n"
    [kind |-> "nested_array", name |-> <<"U">>,
     txt |-> Cat(<<IND, K.type, SP, <<"U">>, SP, K.extends, SP,
                   K.array_of, SP, K.array_of, SP, K.string, NL>>)],
    \* "    enum\n"
    [kind |-> "enum", name |-> <<>>, txt |-> Cat(<<IND, IND, K.enum, NL>>)],
    \* "    properties\n"
    [kind |-> "properties", name |-> <<>>, txt |-> Cat(<<IND, IND, K.properties, NL>>)],
    \* "      a\n"
    [kind |-> "token", name |-> <<"a">>, txt |-> Cat(<<IND, IND, IND, <<"a">>, NL>>)],
    \* "      string x\n"
    [kind |-> "param", name |-> <<"x">>,
     txt |-> Cat(<<IND, IND, IND, K.string, SP, <<"x">>, NL>>)],
    \* "  # about\n"
    [kind |-> "comment", name |-> <<"a", "b", "o", "u", "t">>,
     txt |-> Cat(<<IND, <<"#", " ", "a", "b", "o", "u", "t">>, NL>>)],
    \* "\n"
    [kind |-> "blank", name |-> <<>>, txt |-> NL]
>>

MaxTypeDefChunks == 4

\* the lines tried on domain
DomainCatalog == <<
    \* "domain A\n"
    [kind |-> "head", name |-> <<"A">>, experimental |-> FALSE, deprecated |-> FALSE,
     txt |-> Cat(<<K.domain, SP, <<"A">>, NL>>)],
    \* "experimental domain B\n"
    [kind |-> "head", name |-> <<"B">>, experimental |-> TRUE, deprecated |-> FALSE,
     txt |-> Cat(<<K.experimental, SP, K.domain, SP, <<"B">>, NL>>)],
    \* "deprecated domain C\n"
    [kind |-> "head", name |-> <<"C">>, experimental |-> FALSE, deprecated |-> TRUE,
     txt |-> Cat(<<K.deprecated, SP, K.domain, SP, <<"C">>, NL>>)],
    \* "experimental deprecated domain D\n"
    [kind |-> "head", name |-> <<"D">>, experimental |-> TRUE, deprecated |-> TRUE,
     txt |-> Cat(<<K.experimental, SP, K.deprecated, SP, K.domain, SP, <<"D">>, NL>>)],
    \* "  depends on DOM\n"
    [kind |-> "dep", name |-> <<"D", "O", "M">>, experimental |-> FALSE, deprecated |-> FALSE,
     txt |-> Cat(<<IND, K.depends_on, SP, <<"D", "O", "M">>, NL>>)],
    \* "  type T extends string\n"
    [kind |-> "type", name |-> <<"T">>, experimental |-> FALSE, deprecated |-> FALSE,
     txt |-> Cat(<<IND, K.type, SP, <<"T">>, SP, K.extends, SP, K.string, NL>>)],
    \* "  command f\n"
    [kind |-> "command", name |-> <<"f">>, experimental |-> FALSE, deprecated |-> FALSE,
     txt |-> Cat(<<IND, K.command, SP, <<"f">>, NL>>)],
    \* "  command g\n"
    [kind |-> "command", name |-> <<"g">>, experimental |-> FALSE, deprecated |-> FALSE,
     txt |-> Cat(<<IND, K.command, SP, <<"g">>, NL>>)],
    \* "  event e\n"
    [kind |-> "event", name |-> <<"e">>, experimental |-> FALSE, deprecated |-> FALSE,
     txt |-> Cat(<<IND, K.event, SP, <<"e">>, NL>>)],
    \* "\n"
    [kind |-> "blank", name |-> <<>>, experimental |-> FALSE, deprecated |-> FALSE,
     txt |-> NL],
    \* "  string x\n": no line of a domain
    [kind |-> "other", name |-> <<"x">>, experimental |-> FALSE, deprecated |-> FALSE,
     txt |-> Cat(<<IND, K.string, SP, <<"x">>, NL>>)]
>>

MaxDomainChunks == 4

\* the words of the documents
ABOUT_IT == <<"A", "b", "o", "u", "t", " ", "i", "t">>
OVERLAY == <<"O", "v", "e", "r", "l", "a", "y">>
USE_INSTEAD == <<"U", "s", "e", " ", "'", "f", "'", " ", "i", "n", "s", "t", "e", "a", "d">>
COPY == <<"C", "o", "p", "y", "r", "i", "g", "h", "t", " ", "n", "o", "t", "e">>
FOUND == <<"f", "o", "u", "n", "d">>
DOM == <<"D", "O", "M">>
PAGE == <<"P", "a", "g", "e">>
ABOUT == <<"A", "b", "o", "u", "t", " ", "C">>
RUNTIME == <<"R", "u", "n", "t", "i", "m", "e">>
UNIQUE == <<"U", "n", "i", "q", "u", "e", ".">>
DOES == <<"D", "o", "e", "s", " ", "g", ".">>
OTHER_DOMAIN == <<"O", "t", "h", "e", "r">>
USE_IT == <<"U", "s", "e">>
FOO == <<"f", "o", "o", " ", "b", "a", "r", " ", "b", "a", "z">>

\* a piece of a document: the lines it is written as, and what they declare
Piece(kind, name, desc, experimental, deprecated, ver, members, txt) ==
    [kind |-> kind, name |-> name, description |-> desc,
     experimental |-> experimental, deprecated |-> deprecated,
     version |-> ver, members |-> members, txt |-> txt]

\* the pieces a document is written from, in the layout of the input of
\* tests::parse_protocol: the text up to the head of the first domain, then
\* declarations, each after a blank line and followed by its blocks
DocCatalog == <<
    \* "version\n  major 1\n  minor 3\n\ndomain A\n"
    Piece("prologue", <<"A">>, <<>>, FALSE, FALSE, <<<<"1">>, <<"3">>>>, <<>>,
          Cat(<<K.version, NL, IND, K.major, SP, <<"1">>, NL,
                IND, K.minor, SP, <<"3">>, NL, NL,
                K.domain, SP, <<"A">>, NL>>)),
    \* "# Copyright note\n#  found \n\nversion\n  major 12\n  minor 0\n"
    \* "experimental domain B\n  depends on DOM\n  depends on Page\n"
    Piece("prologue", <<"B">>, <<COPY, FOUND>>,
          TRUE, FALSE, <<<<"1", "2">>, <<"0">>>>, <<DOM, PAGE>>,
          Cat(<<<<"#", " ">>, COPY, NL,
                <<"#", " ", " ">>, FOUND, SP, NL, NL,
                K.version, NL, IND, K.major, SP, <<"1", "2">>, NL,
                IND, K.minor, SP, <<"0">>, NL,
                K.experimental, SP, K.domain, SP, <<"B">>, NL,
                IND, K.depends_on, SP, DOM, NL,
                IND, K.depends_on, SP, PAGE, NL>>)),
    \* "\n# About C\ndeprecated domain C\n"
    Piece("head", <<"C">>, <<ABOUT>>, FALSE, TRUE, <<>>, <<>>,
          Cat(<<NL, <<"#", " ">>, ABOUT, NL,
                K.deprecated, SP, K.domain, SP, <<"C">>, NL>>)),
    \* "  depends on Runtime\n"
    Piece("dep", RUNTIME, <<>>, FALSE, FALSE, <<>>, <<>>,
          Cat(<<IND, K.depends_on, SP, RUNTIME, NL>>)),
    \* "\n  # Unique.\n  type T extends string\n"
    Piece("type", <<"T">>, <<UNIQUE>>, FALSE, FALSE, <<>>, <<>>,
          Cat(<<NL, IND, <<"#", " ">>, UNIQUE, NL,
                IND, K.type, SP, <<"T">>, SP, K.extends, SP, K.string, NL>>)),
    \* "\n  deprecated type U extends array of integer\n"
    Piece("type", <<"U">>, <<>>, FALSE, TRUE, <<>>, <<>>,
          Cat(<<NL, IND, K.deprecated, SP, K.type, SP, <<"U">>, SP, K.extends,
                SP, K.array_of, SP, K.integer, NL>>)),
    \* "    enum\n      a\n      b\n"
    Piece("item_enum", <<>>, <<>>, FALSE, FALSE, <<>>, <<<<"a">>, <<"b">>>>,
          Cat(<<IND, IND, K.enum, NL, IND, IND, IND, <<"a">>, NL,
                IND, IND, IND, <<"b">>, NL>>)),
    \* "    properties\n      optional Node y\n"
    Piece("item_props", <<>>, <<>>, FALSE, FALSE, <<>>, <<<<"y">>>>,
          Cat(<<IND, IND, K.properties, NL, IND, IND, IND, K.optional, SP,
                <<"N", "o", "d", "e">>, SP, <<"y">>, NL>>)),
    \* "\n  command f\n"
    Piece("command", <<"f">>, <<>>, FALSE, FALSE, <<>>, <<>>,
          Cat(<<NL, IND, K.command, SP, <<"f">>, NL>>)),
    \* "\n  # Does g.\n  experimental command g\n"
    Piece("command", <<"g">>, <<DOES>>, TRUE, FALSE, <<>>, <<>>,
          Cat(<<NL, IND, <<"#", " ">>, DOES, NL,
                IND, K.experimental, SP, K.command, SP, <<"g">>, NL>>)),
    \* "    # Use\n    redirect Other\n"
    Piece("redirect", OTHER_DOMAIN, <<USE_IT>>, FALSE, FALSE, <<>>, <<>>,
          Cat(<<IND, IND, <<"#", " ">>, USE_IT, NL,
                IND, IND, K.redirect, SP, OTHER_DOMAIN, NL>>)),
    \* "    parameters\n      string x\n      enum e\n        a\n"
    Piece("params", <<>>, <<>>, FALSE, FALSE, <<>>, <<<<"x">>, <<"e">>>>,
          Cat(<<IND, IND, K.parameters, NL,
                IND, IND, IND, K.string, SP, <<"x">>, NL,
                IND, IND, IND, K.enum, SP, <<"e">>, NL,
                IND, IND, IND, IND, <<"a">>, NL>>)),
    \* "    returns\n      array of integer n\n"
    Piece("returns", <<>>, <<>>, FALSE, FALSE, <<>>, <<<<"n">>>>,
          Cat(<<IND, IND, K.returns, NL,
                IND, IND, IND, K.array_of, SP, K.integer, SP, <<"n">>, NL>>)),
    \* "\n    returns\n      boolean m\n": a blank line before the block
    Piece("returns", <<>>, <<>>, FALSE, FALSE, <<>>, <<<<"m">>>>,
          Cat(<<NL, IND, IND, K.returns, NL,
                IND, IND, IND, K.boolean, SP, <<"m">>, NL>>)),
    \* "\n  event e\n"
    Piece("event", <<"e">>, <<>>, FALSE, FALSE, <<>>, <<>>,
          Cat(<<NL, IND, K.event, SP, <<"e">>, NL>>)),
    \* "\n  deprecated event h\n"
    Piece("event", <<"h">>, <<>>, FALSE, TRUE, <<>>, <<>>,
          Cat(<<NL, IND, K.deprecated, SP, K.event, SP, <<"h">>, NL>>)),
    \* "foo bar baz\n": a line of no declaration
    Piece("garbage", <<>>, <<>>, FALSE, FALSE, <<>>, <<>>,
          Cat(<<FOO, NL>>))
>>

MaxDocChunks == 4

\* the lines tried on command
CommandCatalog == <<
    \* "  command f\n"
    [kind |-> "head", name |-> <<"f">>,
     txt |-> Cat(<<IND, K.command, SP, <<"f">>, NL>>)],
    \* "    redirect Overlay\n"
    [kind |-> "redirect", name |-> OVERLAY,
     txt |-> Cat(<<IND, IND, K.redirect, SP, OVERLAY, NL>>)],
    \* "    parameters\n      string x\n"
    [kind |-> "parameters", name |-> <<"x">>,
     txt |-> Cat(<<IND, IND, K.parameters, NL,
                   IND, IND, IND, K.string, SP, <<"x">>, NL>>)],
    \* "    returns\n      array of string n\n"
    [kind |-> "returns", name |-> <<"n">>,
     txt |-> Cat(<<IND, IND, K.returns, NL,
                   IND, IND, IND, K.array_of, SP, K.string, SP, <<"n">>, NL>>)],
    \* "    # Use 'f' instead\n"
    [kind |-> "comment", name |-> USE_INSTEAD,
     txt |-> Cat(<<IND, IND, <<"#", " ">>, USE_INSTEAD, NL>>)],
    \* "\n"
    [kind |-> "blank", name |-> <<>>, txt |-> NL]
>>

MaxCommandChunks == 4

\* the modifiers written before the keyword of a head line, each with the
\* space after it
ModifierCatalog == <<
    [kind |-> "modifier", name |-> K.experimental, txt |-> K.experimental \o SP],
    [kind |-> "modifier", name |-> K.deprecated, txt |-> K.deprecated \o SP],
    [kind |-> "modifier", name |-> K.optional, txt |-> K.optional \o SP]
>>

MaxModifiers == 3

\* the declaration parsers run on a head line
HeadRules == {"head_domain", "head_type_def", "head_command", "head_event",
              "head_param"}

\* the head line after its modifiers: keyword, name and what the head needs
HeadRest(r) ==
    CASE r = "head_domain" -> Cat(<<K.domain, SP, <<"X">>, NL>>)
      [] r = "head_type_def" ->
             Cat(<<K.type, SP, <<"X">>, SP, K.extends, SP, K.string, NL>>)
      [] r = "head_command" -> Cat(<<K.command, SP, <<"X">>, NL>>)
      [] r = "head_event" -> Cat(<<K.event, SP, <<"X">>, NL>>)
      [] r = "head_param" -> Cat(<<K.string, SP, <<"x">>, NL>>)

\* the lines written before a head line
DescriptionCatalog == <<
    \* "# About it\n"
    [kind |-> "comment", name |-> ABOUT_IT,
     txt |-> Cat(<<<<"#", " ">>, ABOUT_IT, NL>>)],
    \* "    #  Use 'f' instead \n"
    [kind |-> "comment", name |-> USE_INSTEAD,
     txt |-> Cat(<<IND, IND, <<"#", " ", " ">>, USE_INSTEAD, SP, NL>>)],
    \* "\n"
    [kind |-> "blank", name |-> <<>>, txt |-> NL]
>>

MaxDescriptionChunks == 4

\* the parsers of the declarations that have a description
DescribedRules == {"described_domain", "described_type_def",
                   "described_command", "described_event", "described_param",
                   "described_variant", "described_redirect"}

\* a head line of the declaration
DescribedHead(r) ==
    CASE r = "described_domain" -> HeadRest("head_domain")
      [] r = "described_type_def" -> IND \o HeadRest("head_type_def")
      [] r = "described_command" -> IND \o HeadRest("head_command")
      [] r = "described_event" -> IND \o HeadRest("head_event")
      [] r = "described_param" -> IND \o HeadRest("head_param")
      [] r = "described_variant" -> Cat(<<IND, <<"v">>, NL>>)
      [] r = "described_redirect" -> Cat(<<IND, K.redirect, SP, OVERLAY, NL>>)

\* the pieces written after the keyword and the space of a head line
NameCatalog == <<
    [kind |-> "token", name |-> <<"A">>, txt |-> <<"A">>],
    [kind |-> "token", name |-> <<"B", "c">>, txt |-> <<"B", "c">>],
    [kind |-> "space", name |-> <<>>, txt |-> SP],
    [kind |-> "space", name |-> <<>>, txt |-> TAB]
>>

MaxNameChunks == 3

\* the declaration parsers whose head line ends with the name
NameRules == {"name_domain", "name_command", "name_event"}

\* the lines of a command with its two blocks
BlocksCatalog == <<
    \* "  command f\n"
    [kind |-> "head", name |-> <<"f">>,
     txt |-> Cat(<<IND, K.command, SP, <<"f">>, NL>>)],
    \* "    parameters\n"
    [kind |-> "parameters", name |-> <<>>,
     txt |-> Cat(<<IND, IND, K.parameters, NL>>)],
    \* "    returns\n"
    [kind |-> "returns", name |-> <<>>,
     txt |-> Cat(<<IND, IND, K.returns, NL>>)],
    \* "      string x\n"
    [kind |-> "param", name |-> <<"x">>,
     txt |-> Cat(<<IND, IND, IND, K.string, SP, <<"x">>, NL>>)],
    \* "      enum e\n        a\n"
    [kind |-> "enum_param", name |-> <<"e">>,
     txt |-> Cat(<<IND, IND, IND, K.enum, SP, <<"e">>, NL,
                   IND, IND, IND, IND, <<"a">>, NL>>)],
    \* "      optional integer n\n"
    [kind |-> "param", name |-> <<"n">>,
     txt |-> Cat(<<IND, IND, IND, K.optional, SP, K.integer, SP, <<"n">>, NL>>)]
>>

MaxBlocksChunks == 6

\* the pieces of a document around its domains
DomainsCatalog == <<
    \* "# Copyright note\nversion\n  major 1\n  minor 3\n"
    [kind |-> "version", name |-> <<>>,
     txt |-> Cat(<<<<"#", " ">>, COPY, NL, K.version, NL,
                   IND, K.major, SP, <<"1">>, NL,
                   IND, K.minor, SP, <<"3">>, NL>>)],
    \* "\n"
    [kind |-> "blank", name |-> <<>>, txt |-> NL],
    \* "domain A\n"
    [kind |-> "head", name |-> <<"A">>,
     txt |-> Cat(<<K.domain, SP, <<"A">>, NL>>)],
    \* "experimental domain B\n  depends on DOM\n"
    [kind |-> "head", name |-> <<"B">>,
     txt |-> Cat(<<K.experimental, SP, K.domain, SP, <<"B">>, NL,
                   IND, K.depends_on, SP, DOM, NL>>)],
    \* "domain\n": a head line that does not match
    [kind |-> "bad", name |-> <<>>, txt |-> Cat(<<K.domain, NL>>)],
    \* "  command f\n"
    [kind |-> "child", name |-> <<"f">>,
     txt |-> Cat(<<IND, K.command, SP, <<"f">>, NL>>)]
>>

MaxDomainsChunks == 4

\* a whole document: the pieces of DocCatalog it is made of, and its text
DocumentPieces == <<2, 6, 7, 10, 11, 12, 14, 16>>

FullDocument ==
    Cat([k \in 1..Len(DocumentPieces) |-> DocCatalog[DocumentPieces[k]].txt])

\* the document followed by a line of no declaration and an indented line
TrailedDocument == Cat(<<FullDocument, DocCatalog[17].txt, DocCatalog[6].txt>>)

\* the runs of spaces and tabs written in place of the indent of a line
MaxIndent == 2

IndentRuns == UNION {[1..m -> {" ", "\t"}] : m \in 1..MaxIndent}

\* the positions where the indented declaration lines of t begin: lines that
\* begin with a space or a tab and are neither comment lines nor blank
IndentedLines(t) ==
    {p \in 1..Len(t) :
        /\ p = 1 \/ t[p - 1] = "\n"
        /\ t[p] \in {" ", "\t"}
        /\ span_blank(t, p) <= Len(t)
        /\ t[span_blank(t, p)] \notin {"#", "\n"}}

\* t with the leading whitespace run of the line at p replaced by w
Reindented(t, p, w) ==
    SubSeq(t, 1, p - 1) \o w \o SubSeq(t, span_blank(t, p), Len(t))

\* a comment line "# c\n" under an indent
Commented(ind) == ind \o <<"#", " ", "c">> \o NL

\* a document written up to a piece that one of the repeated or optional
\* parsers begins to read and then fails on: pieces that match, then pieces
\* that do not after their blank line, comment line or block header
PartialCatalog == <<
    DocCatalog[1], DocCatalog[6], DocCatalog[7], DocCatalog[9], DocCatalog[14],
    \* "\n  # c\n  type\n": a child of a domain without its name
    [kind |-> "bad_child",
     txt |-> Cat(<<NL, Commented(IND), IND, K.type, NL>>)],
    \* "      # c\n      string\n": a Param without its name
    [kind |-> "bad_param",
     txt |-> Cat(<<Commented(IND \o IND \o IND), IND, IND, IND, K.string, NL>>)],
    \* "      # c\n      a b\n": a Variant of two tokens
    [kind |-> "bad_variant",
     txt |-> Cat(<<Commented(IND \o IND \o IND),
                   IND, IND, IND, <<"a">>, SP, <<"b">>, NL>>)],
    \* "    # c\n    redirect\n": a redirect without its target
    [kind |-> "bad_redirect",
     txt |-> Cat(<<Commented(IND \o IND), IND, IND, K.redirect, NL>>)],
    \* "    parameters\n      # c\n      string\n": a block without a Param
    [kind |-> "bad_params",
     txt |-> Cat(<<IND, IND, K.parameters, NL, Commented(IND \o IND \o IND),
                   IND, IND, IND, K.string, NL>>)],
    \* "    returns\n      string\n"
    [kind |-> "bad_returns",
     txt |-> Cat(<<IND, IND, K.returns, NL, IND, IND, IND, K.string, NL>>)],
    \* "\n# c\ndomain\n": a domain without its name
    [kind |-> "bad_domain",
     txt |-> Cat(<<NL, Commented(<<>>), K.domain, NL>>)]
>>

MaxPartialChunks == 4

FailingKinds == {"bad_child", "bad_param", "bad_variant", "bad_redirect",
                 "bad_params", "bad_returns", "bad_domain"}

\* the document with the head of a second domain and a command under it
LoopDocument == Cat(<<FullDocument, DocCatalog[3].txt, DocCatalog[9].txt>>)

\* the repetitions of the grammar, each run one iteration at a time
LoopRules == {"loop_empty_lines", "loop_description", "loop_depends_on",
              "loop_children", "loop_params", "loop_variants", "loop_domains"}

\* the parser a repetition repeats
Body(r, s, i) ==
    CASE r = "loop_empty_lines" -> eol(s, i)
      [] r = "loop_description" -> comment(s, i)
      [] r = "loop_depends_on" -> depends_on(s, i)
      [] r = "loop_children" -> domain_item(s, i)
      [] r = "loop_params" -> param(s, i)
      [] r = "loop_variants" -> variant(s, i)
      [] r = "loop_domains" -> protocol_domain(s, i)

\* what each repeated parser returns at each place of the document
BodyResults ==
    [r \in LoopRules |->
        [p \in 1..(Len(LoopDocument) + 1) |-> Body(r, LoopDocument, p)]]

\* the entry points of lib.rs run on a Param line
LibRules == {"lib_param", "lib_enum_param"}

\* the Param after its modifiers
LibRest(r) ==
    CASE r = "lib_param" -> Cat(<<K.any, SP, <<"x">>, NL>>)
      [] r = "lib_enum_param" ->
             Cat(<<K.enum, SP, <<"e">>, NL, IND, IND, <<"a">>, NL,
                   IND, IND, <<"b">>, NL>>)

Catalog(r) ==
    CASE r = "version" -> VersionCatalog
      [] r = "ty" -> TyCatalog
      [] r = "param" -> ParamCatalog
      [] r = "type_def" -> TypeDefCatalog
      [] r = "domain" -> DomainCatalog
      [] r = "doc" -> DocCatalog
      [] r \in HeadRules -> ModifierCatalog
      [] r \in LibRules -> ModifierCatalog
      [] r \in NameRules -> NameCatalog
      [] r = "blocks" -> BlocksCatalog
      [] r = "domains" -> DomainsCatalog
      [] r = "partial" -> PartialCatalog
      [] r = "command" -> CommandCatalog
      [] r \in DescribedRules -> DescriptionCatalog

MaxChunks(r) ==
    CASE r = "version" -> MaxVersionChunks
      [] r = "ty" -> MaxTyChunks
      [] r = "param" -> MaxParamChunks
      [] r = "type_def" -> MaxTypeDefChunks
      [] r = "domain" -> MaxDomainChunks
      [] r = "doc" -> MaxDocChunks
      [] r \in HeadRules -> MaxModifiers
      [] r \in LibRules -> MaxModifiers
      [] r \in NameRules -> MaxNameChunks
      [] r = "blocks" -> MaxBlocksChunks
      [] r = "domains" -> MaxDomainsChunks
      [] r = "partial" -> MaxPartialChunks
      [] r = "command" -> MaxCommandChunks
      [] r \in DescribedRules -> MaxDescriptionChunks

\* the values given to the JSON renderer
MaxArrayDepth == 2
MaxVariants == 2
MaxUsize == 110
MaxLines == 3

VariantValues ==
    {[description |-> <<>>, name |-> <<"a">>],
     [description |-> <<ABOUT_IT>>, name |-> <<"b">>]}

\* the sequences of at most n members of S
SeqsUpTo(S, n) == UNION {[1..m -> S] : m \in 0..n}

RECURSIVE TyValues(_)
TyValues(depth) ==
    IF depth = 0
    THEN {Scalar(k) : k \in {"Integer", "Number", "Boolean", "String",
                             "Object", "Any"}}
         \cup {Enum(vs) : vs \in SeqsUpTo(VariantValues, MaxVariants)}
         \cup {Ref(DOM), Ref(PAGE)}
    ELSE TyValues(0) \cup {ArrayOf(elem) : elem \in TyValues(depth - 1)}

DescriptionValues == SeqsUpTo({<<"a">>, <<"b", " ", "c">>, <<>>}, MaxLines)

RedirectValues ==
    {<<>>} \cup {<<[description |-> d, to |-> n]>> :
                    d \in {<<>>, <<USE_INSTEAD>>}, n \in {OVERLAY, DOM}}

ParamValues ==
    {[experimental |-> e, deprecated |-> d, optional |-> o, ty |-> elem,
      description |-> c, name |-> <<"x">>] :
        e \in BOOLEAN, d \in BOOLEAN, o \in BOOLEAN,
        elem \in {Scalar("String"), Ref(DOM)}, c \in {<<>>, <<ABOUT_IT>>}}

TypeDefValues ==
    {[description |-> c, experimental |-> e, deprecated |-> d, id |-> <<"T">>,
      extends |-> Scalar("String"), item |-> it] :
        e \in BOOLEAN, d \in BOOLEAN, c \in {<<>>, <<ABOUT_IT>>},
        it \in {<<>>, <<ItemEnum(<<[description |-> <<>>, name |-> <<"a">>]>>)>>}}

CommandValues ==
    {[description |-> c, experimental |-> e, deprecated |-> d, name |-> <<"f">>,
      redirect |-> r, parameters |-> <<>>, returns |-> <<>>] :
        e \in BOOLEAN, d \in BOOLEAN, c \in {<<>>, <<ABOUT_IT>>},
        r \in {<<>>, <<[description |-> <<USE_INSTEAD>>, to |-> OVERLAY]>>}}

EventValues ==
    {[description |-> c, experimental |-> e, deprecated |-> d, name |-> <<"e">>,
      parameters |-> <<>>] :
        e \in BOOLEAN, d \in BOOLEAN, c \in {<<>>, <<ABOUT_IT>>}}

JsonValues(r) ==
    CASE r = "Ty" -> TyValues(MaxArrayDepth)
      [] r = "usize" -> 0..MaxUsize
      [] r = "description" -> DescriptionValues
      [] r = "redirect" -> RedirectValues
      [] r = "Param" -> ParamValues
      [] r = "TypeDef" -> TypeDefValues
      [] r = "Command" -> CommandValues
      [] r = "Event" -> EventValues

JsonRules == {"Ty", "usize", "description", "redirect", "Param", "TypeDef",
              "Command", "Event"}

\* the documents given to the Markdown renderer: one domain with at most one
\* command, one type and one event, their lists drawn from three parameters
MaxMdParams == 1

FILE_NAME == <<"a", ".", "p", "d", "l">>

MdVariants ==
    <<[description |-> <<>>, name |-> <<"a">>],
      [description |-> <<ABOUT_IT>>, name |-> <<"b">>]>>

MdParamValues ==
    {[experimental |-> FALSE, deprecated |-> FALSE, optional |-> FALSE,
      ty |-> Scalar("String"), description |-> <<ABOUT_IT>>, name |-> <<"x">>],
     [experimental |-> FALSE, deprecated |-> FALSE, optional |-> FALSE,
      ty |-> Enum(MdVariants), description |-> <<>>, name |-> <<"e">>],
     [experimental |-> TRUE, deprecated |-> TRUE, optional |-> TRUE,
      ty |-> Ref(DOM), description |-> <<>>, name |-> <<"y">>]}

MdParamLists == SeqsUpTo(MdParamValues, MaxMdParams)

MdCommandValues ==
    {[description |-> <<ABOUT_IT>>, experimental |-> TRUE, deprecated |-> FALSE,
      name |-> <<"f">>, redirect |-> <<>>, parameters |-> ps, returns |-> rs] :
        ps \in MdParamLists,
        rs \in {<<>>, <<CHOOSE q \in MdParamValues : q.ty.k = "Enum">>}}

MdTypeDefValues ==
    {[description |-> <<>>, experimental |-> FALSE, deprecated |-> TRUE,
      id |-> <<"T">>, extends |-> Scalar("String"), item |-> it] :
        it \in {<<>>, <<ItemEnum(MdVariants)>>}
               \cup {<<ItemProperties(ps)>> : ps \in MdParamLists}}

MdEventValues ==
    {[description |-> <<>>, experimental |-> FALSE, deprecated |-> FALSE,
      name |-> <<"h">>, parameters |-> ps] : ps \in MdParamLists}

\* None or Some(v) of the values of S, as a list
AtMostOne(S) == {<<>>} \cup {<<v>> : v \in S}

MdProtocolValues ==
    {[description |-> <<>>,
      version |-> [major |-> <<"1">>, minor |-> <<"3">>],
      domains |-> <<[description |-> <<ABOUT_IT>>, experimental |-> FALSE,
                     deprecated |-> FALSE, name |-> PAGE,
                     dependencies |-> <<>>, types |-> ts, commands |-> cs,
                     events |-> es]>>] :
        ts \in AtMostOne(MdTypeDefValues), cs \in AtMostOne(MdCommandValues),
        es \in AtMostOne(MdEventValues)}

\* the catalogue entries of the pieces written so far
Written == [k \in 1..Len(chunks) |-> Catalog(rule)[chunks[k]]]

\* the text of the pieces from the k-th on
TextFrom(k) == Cat([j \in 1..(Len(chunks) - k + 1) |-> Written[k + j - 1].txt])

----------------------------------------------------------------------------
(* The layout of a document as it is written: what may come next depends   *)
(* on the piece written last.  Declarations of a domain come in any order, *)
(* each after a blank line (directly under a list of Params or Variants a  *)
(* line `<keyword> <name>` reads as one more of them); `depends on` lines  *)
(* come under the head; after a line of no declaration only a type or a    *)
(* domain is written.                                                      *)

Declarations == {"type", "command", "event", "head", "garbage"}

HasGarbage == \E k \in 1..Len(chunks) : Written[k].kind = "garbage"

\* the kind of the piece written last
LastKind == IF chunks = <<>> THEN "none" ELSE Written[Len(chunks)].kind

\* the parameters block written last is that of an event
EventParams ==
    /\ Len(chunks) >= 2
    /\ Written[Len(chunks)].kind = "params"
    /\ Written[Len(chunks) - 1].kind = "event"

FollowKinds ==
    IF HasGarbage THEN {"type", "head"}
    ELSE CASE LastKind = "none" -> {"prologue"}
           [] LastKind \in {"prologue", "head", "dep"} -> Declarations \cup {"dep"}
           [] LastKind = "type" -> Declarations \cup {"item_enum", "item_props"}
           [] LastKind \in {"item_enum", "item_props", "returns"} -> Declarations
           [] LastKind = "command" ->
                  Declarations \cup {"redirect", "params", "returns"}
           [] LastKind = "redirect" -> Declarations \cup {"params", "returns"}
           [] LastKind = "params" ->
                  IF EventParams THEN Declarations
                  ELSE Declarations \cup {"returns"}
           [] LastKind = "event" -> Declarations \cup {"params"}

\* the layout of a command with its blocks: the head line, the parameters
\* header and its Params, then the returns header and its Params
BlocksFollowKinds ==
    CASE LastKind = "none" -> {"head"}
      [] LastKind = "head" -> {"parameters"}
      [] LastKind \in {"parameters", "returns"} -> {"param", "enum_param"}
      [] LastKind \in {"param", "enum_param"} ->
             IF \E k \in 1..Len(chunks) : Written[k].kind = "returns"
             THEN {"param", "enum_param"}
             ELSE {"param", "enum_param", "returns"}

\* a piece one of the parsers fails on has been written
HasFailing == \E k \in 1..Len(chunks) : Written[k].kind \in FailingKinds

\* a failing piece is written where its parser is the one tried; after it
\* only one more declaration is written
PartialFollowKinds ==
    IF HasFailing THEN (IF LastKind \in FailingKinds THEN {"type"} ELSE {})
    ELSE CASE LastKind = "none" -> {"prologue"}
           [] LastKind = "prologue" ->
                  {"type", "command", "bad_child", "bad_domain"}
           [] LastKind = "type" ->
                  {"type", "command", "item_enum", "bad_child", "bad_domain"}
           [] LastKind = "item_enum" ->
                  {"type", "command", "bad_child", "bad_variant", "bad_domain"}
           [] LastKind = "command" ->
                  {"type", "command", "returns", "bad_child", "bad_redirect",
                   "bad_params", "bad_returns", "bad_domain"}
           [] LastKind = "returns" ->
                  {"type", "command", "bad_child", "bad_param", "bad_domain"}

\* the piece c may be written next
Follows(c) ==
    /\ rule = "partial" => Catalog(rule)[c].kind \in PartialFollowKinds
    /\ rule = "doc" => Catalog(rule)[c].kind \in FollowKinds
    /\ rule = "blocks" => Catalog(rule)[c].kind \in BlocksFollowKinds
    /\ rule = "domains" => (Catalog(rule)[c].kind = "version" <=> chunks = <<>>)

----------------------------------------------------------------------------
(* The state machine: a buffer is written, an entry point is run on it.    *)

InitRule(r) ==
    /\ rule = r
    /\ chunks = <<>>
    /\ input = <<>>
    /\ pc = "edit"
    /\ res = NoResult
    /\ text = <<>>
    /\ res2 = NoResult
    /\ rest_len = 0
    /\ warn_on = FALSE
    /\ shown = -1

\* one more piece of text is written at the end of the buffer
AddChunk ==
    /\ pc = "edit"
    /\ Len(chunks) < MaxChunks(rule)
    /\ \E c \in DOMAIN Catalog(rule) :
        /\ Follows(c)
        /\ chunks' = Append(chunks, c)
        /\ input' = input \o Catalog(rule)[c].txt
    /\ UNCHANGED <<rule, pc, res, text, res2, rest_len, warn_on, shown>>

\* version(input)
CallVersion ==
    /\ rule = "version"
    /\ pc = "edit"
    /\ res' = version(input, 1)
    /\ pc' = "parsed"
    /\ UNCHANGED <<rule, chunks, input, text, res2, rest_len, warn_on, shown>>

\* ty(input)
CallTy ==
    /\ rule = "ty"
    /\ pc = "edit"
    /\ res' = ty(input, 1)
    /\ pc' = "parsed"
    /\ UNCHANGED <<rule, chunks, input, text, res2, rest_len, warn_on, shown>>

\* param(input)
CallParam ==
    /\ rule = "param"
    /\ pc = "edit"
    /\ res' = param(input, 1)
    /\ pc' = "parsed"
    /\ UNCHANGED <<rule, chunks, input, text, res2, rest_len, warn_on, shown>>

\* type_def(input)
CallTypeDef ==
    /\ rule = "type_def"
    /\ pc = "edit"
    /\ res' = type_def(input, 1)
    /\ pc' = "parsed"
    /\ UNCHANGED <<rule, chunks, input, text, res2, rest_len, warn_on, shown>>

\* domain(input)
CallDomain ==
    /\ rule = "domain"
    /\ pc = "edit"
    /\ res' = domain(input, 1)
    /\ pc' = "parsed"
    /\ UNCHANGED <<rule, chunks, input, text, res2, rest_len, warn_on, shown>>

\* parse(input)
CallParse ==
    /\ rule = "doc"
    /\ pc = "edit"
    /\ res' = parse(input)
    /\ pc' = "parsed"
    /\ UNCHANGED <<rule, chunks, input, text, res2, rest_len, warn_on, shown>>

\* format!("{}", protocol): the Document parse returned, as canonical text
Render ==
    /\ rule = "doc"
    /\ pc = "parsed"
    /\ res.ok
    /\ text' = fmt_Protocol(res.val)
    /\ pc' = "rendered"
    /\ UNCHANGED <<rule, chunks, input, res, res2, rest_len, warn_on, shown>>

\* parse(text): the canonical text parsed again
Reparse ==
    /\ rule = "doc"
    /\ pc = "rendered"
    /\ res2' = parse(text)
    /\ pc' = "reparsed"
    /\ UNCHANGED <<rule, chunks, input, res, text, rest_len, warn_on, shown>>

InitVersion == InitRule("version")
NextVersion == AddChunk \/ CallVersion
SpecVersion == InitVersion /\ [][NextVersion]_vars

\* the parsers of one declaration line and the lines under it
InitDecl == InitRule("ty") \/ InitRule("param") \/ InitRule("type_def")
NextDecl == AddChunk \/ CallTy \/ CallParam \/ CallTypeDef
SpecDecl == InitDecl /\ [][NextDecl]_vars

\* a document is written, parsed, rendered and parsed again
Init == InitRule("doc")
Next == AddChunk \/ CallParse \/ Render \/ Reparse
Spec == Init /\ [][Next]_vars

\* the head line under test: indent (none for a domain), the modifiers
\* written, the rest of the head
HeadLine ==
    (IF rule = "head_domain" THEN <<>> ELSE IND) \o input \o HeadRest(rule)

\* the declaration parser of the rule on the head line
CallHead ==
    /\ rule \in HeadRules
    /\ pc = "edit"
    /\ res' = CASE rule = "head_domain" -> domain(HeadLine, 1)
                [] rule = "head_type_def" -> type_def(HeadLine, 1)
                [] rule = "head_command" -> command(HeadLine, 1)
                [] rule = "head_event" -> event(HeadLine, 1)
                [] rule = "head_param" -> param(HeadLine, 1)
    /\ pc' = "parsed"
    /\ UNCHANGED <<rule, chunks, input, text, res2, rest_len, warn_on, shown>>

\* the declaration parsers on head lines with every sequence of modifiers
InitHead == \E r \in HeadRules : InitRule(r)
NextHead == AddChunk \/ CallHead
SpecHead == InitHead /\ [][NextHead]_vars

\* the Param line under test: indent, the modifiers written, type and name
LibLine == IND \o input \o LibRest(rule)

\* lib.rs param(line)
CallLibParam ==
    /\ rule \in LibRules
    /\ pc = "edit"
    /\ res' = lib_param(LibLine, 1)
    /\ pc' = "parsed"
    /\ UNCHANGED <<rule, chunks, input, text, res2, rest_len, warn_on, shown>>

\* the param parser of lib.rs on Param lines with every sequence of modifiers
InitLib == \E r \in LibRules : InitRule(r)
NextLib == AddChunk \/ CallLibParam
SpecLib == InitLib /\ [][NextLib]_vars

\* the head line under test: keyword, one space, the text written, newline
NamedLine ==
    CASE rule = "name_domain" -> Cat(<<K.domain, SP, input, NL>>)
      [] rule = "name_command" -> Cat(<<IND, K.command, SP, input, NL>>)
      [] rule = "name_event" -> Cat(<<IND, K.event, SP, input, NL>>)

\* the declaration parser of the rule on the head line
CallNamed ==
    /\ rule \in NameRules
    /\ pc = "edit"
    /\ res' = CASE rule = "name_domain" -> domain(NamedLine, 1)
                [] rule = "name_command" -> command(NamedLine, 1)
                [] rule = "name_event" -> event(NamedLine, 1)
    /\ pc' = "parsed"
    /\ UNCHANGED <<rule, chunks, input, text, res2, rest_len, warn_on, shown>>

\* domain, command and event on head lines with every text after the keyword
InitNamed == \E r \in NameRules : InitRule(r)
NextNamed == AddChunk \/ CallNamed
SpecNamed == InitNamed /\ [][NextNamed]_vars

\* command(input) on a command with its blocks
CallBlocks ==
    /\ rule = "blocks"
    /\ pc = "edit"
    /\ res' = command(input, 1)
    /\ pc' = "parsed"
    /\ UNCHANGED <<rule, chunks, input, text, res2, rest_len, warn_on, shown>>

\* the parser of one command on a parameters block and a returns block
InitBlocks == InitRule("blocks")
NextBlocks == AddChunk \/ CallBlocks
SpecBlocks == InitBlocks /\ [][NextBlocks]_vars

\* parse(input) on a version block and what is written after it
CallParseDomains ==
    /\ rule = "domains"
    /\ pc = "edit"
    /\ res' = parse(input)
    /\ pc' = "parsed"
    /\ UNCHANGED <<rule, chunks, input, text, res2, rest_len, warn_on, shown>>

\* parse on a description and version block followed by domains or not
InitDomains == InitRule("domains")
NextDomains == AddChunk \/ CallParseDomains
SpecDomains == InitDomains /\ [][NextDomains]_vars

\* the buffer is the document cut after its first n characters
InitTruncated ==
    \E n \in 0..Len(FullDocument) :
        /\ rule = "truncated"
        /\ chunks = <<>>
        /\ input = SubSeq(FullDocument, 1, n)
        /\ pc = "edit"
        /\ res = NoResult
        /\ text = <<>>
        /\ res2 = NoResult
        /\ rest_len = 0
        /\ warn_on = FALSE
        /\ shown = -1

\* parse(input) on the whole buffer
CallParseTruncated ==
    /\ rule = "truncated"
    /\ pc = "edit"
    /\ res' = parse(input)
    /\ pc' = "parsed"
    /\ UNCHANGED <<rule, chunks, input, text, res2, rest_len, warn_on, shown>>

\* parse on every beginning of a document
NextTruncated == CallParseTruncated
SpecTruncated == InitTruncated /\ [][NextTruncated]_vars

\* parse(input) on a document that ends in text a parser fails on
CallParsePartial ==
    /\ rule = "partial"
    /\ pc = "edit"
    /\ res' = parse(input)
    /\ pc' = "parsed"
    /\ UNCHANGED <<rule, chunks, input, text, res2, rest_len, warn_on, shown>>

InitPartial == InitRule("partial")
NextPartial == AddChunk \/ CallParsePartial
SpecPartial == InitPartial /\ [][NextPartial]_vars

\* the document is in the buffer and no repetition has begun
InitLoop ==
    /\ rule = "loop"
    /\ chunks = <<>>
    /\ input = LoopDocument
    /\ pc = "begin"
    /\ res = NoResult
    /\ text = <<>>
    /\ res2 = NoResult
    /\ rest_len = 0
    /\ warn_on = FALSE
    /\ shown = 0

\* a repetition is begun at any place of the document: chunks holds the place,
\* res the cursor, shown the place where the last iteration began (0: none)
Begin ==
    /\ pc = "begin"
    /\ \E r \in LoopRules : \E p \in 1..(Len(input) + 1) :
        /\ rule' = r
        /\ chunks' = <<p>>
        /\ res' = [ok |-> TRUE, pos |-> p, val |-> <<>>]
    /\ pc' = "loop"
    /\ UNCHANGED <<input, text, res2, rest_len, warn_on, shown>>

\* one iteration of many0 / many1: the parser matches and the loop goes on
\* from where it ended
Iterate ==
    /\ rule \in LoopRules
    /\ pc = "loop"
    /\ BodyResults[rule][res.pos].ok
    /\ res' = BodyResults[rule][res.pos]
    /\ shown' = res.pos
    /\ UNCHANGED <<rule, chunks, input, pc, text, res2, rest_len, warn_on>>

\* the parser fails: the repetition ends with the cursor where it was
LoopEnd ==
    /\ rule \in LoopRules
    /\ pc = "loop"
    /\ ~BodyResults[rule][res.pos].ok
    /\ pc' = "done"
    /\ UNCHANGED <<rule, chunks, input, res, text, res2, rest_len, warn_on, shown>>

NextLoop == Begin \/ Iterate \/ LoopEnd
SpecLoop == InitLoop /\ [][NextLoop]_vars

\* a loop that can take a step takes it
SpecLoopFair == SpecLoop /\ WF_vars(NextLoop)

\* the buffer is a whole document, with or without text parse leaves unread
InitIndent ==
    \E d \in {FullDocument, TrailedDocument} :
        /\ rule = "indent"
        /\ chunks = <<>>
        /\ input = d
        /\ pc = "edit"
        /\ res = NoResult
        /\ text = <<>>
        /\ res2 = NoResult
        /\ rest_len = 0
        /\ warn_on = FALSE
        /\ shown = -1

\* parse(input)
CallParseIndent ==
    /\ rule = "indent"
    /\ pc = "edit"
    /\ res' = parse(input)
    /\ pc' = "parsed"
    /\ UNCHANGED <<rule, chunks, input, text, res2, rest_len, warn_on, shown>>

\* the indent of one declaration line (at chunks[1]) is replaced by another
\* run of spaces and tabs, and parse is run on the new text
Reindent ==
    /\ rule = "indent"
    /\ pc = "parsed"
    /\ \E p \in IndentedLines(input) : \E w \in IndentRuns :
        /\ chunks' = <<p>>
        /\ text' = Reindented(input, p, w)
        /\ res2' = parse(Reindented(input, p, w))
    /\ pc' = "reparsed"
    /\ UNCHANGED <<rule, input, res, rest_len, warn_on, shown>>

NextIndent == CallParseIndent \/ Reindent
SpecIndent == InitIndent /\ [][NextIndent]_vars

\* the declaration parser of the rule on the lines written and a head line
CallDescribed ==
    /\ rule \in DescribedRules
    /\ pc = "edit"
    /\ res' = CASE rule = "described_domain" ->
                       domain(input \o DescribedHead(rule), 1)
                [] rule = "described_type_def" ->
                       type_def(input \o DescribedHead(rule), 1)
                [] rule = "described_command" ->
                       command(input \o DescribedHead(rule), 1)
                [] rule = "described_event" ->
                       event(input \o DescribedHead(rule), 1)
                [] rule = "described_param" ->
                       param(input \o DescribedHead(rule), 1)
                [] rule = "described_variant" ->
                       variant(input \o DescribedHead(rule), 1)
                [] rule = "described_redirect" ->
                       redirect(input \o DescribedHead(rule), 1)
    /\ pc' = "parsed"
    /\ UNCHANGED <<rule, chunks, input, text, res2, rest_len, warn_on, shown>>

\* the declaration parsers on a head line under comment and blank lines
InitDescribed == \E r \in DescribedRules : InitRule(r)
NextDescribed == AddChunk \/ CallDescribed
SpecDescribed == InitDescribed /\ [][NextDescribed]_vars

\* command(input)
CallCommand ==
    /\ rule = "command"
    /\ pc = "edit"
    /\ res' = command(input, 1)
    /\ pc' = "parsed"
    /\ UNCHANGED <<rule, chunks, input, text, res2, rest_len, warn_on, shown>>

\* the parser of one command
InitCommand == InitRule("command")
NextCommand == AddChunk \/ CallCommand
SpecCommand == InitCommand /\ [][NextCommand]_vars

\* the JSON renderer on a value: the serializer of its kind
InitJson ==
    \E r \in JsonRules : \E v \in JsonValues(r) :
        /\ rule = r
        /\ input = v
        /\ chunks = <<>>
        /\ pc = "value"
        /\ res = NoResult
        /\ text = <<>>
        /\ res2 = NoResult
        /\ rest_len = 0
        /\ warn_on = FALSE
        /\ shown = -1

Serialized(j) ==
    /\ pc = "value"
    /\ res' = j
    /\ pc' = "serialized"
    /\ UNCHANGED <<rule, chunks, input, text, res2, rest_len, warn_on, shown>>

SerializeTy == rule = "Ty" /\ Serialized(serialize_Ty(input))
SerializeUsize == rule = "usize" /\ Serialized(serialize_usize(input))
SerializeDescription ==
    rule = "description" /\ Serialized(serialize_description(input))
SerializeRedirect == rule = "redirect" /\ Serialized(serialize_redirect(input))
SerializeParam == rule = "Param" /\ Serialized(serialize_Param(input))
SerializeTypeDef == rule = "TypeDef" /\ Serialized(serialize_TypeDef(input))
SerializeCommand == rule = "Command" /\ Serialized(serialize_Command(input))
SerializeEvent == rule = "Event" /\ Serialized(serialize_Event(input))

NextJson ==
    \/ SerializeTy
    \/ SerializeUsize
    \/ SerializeDescription
    \/ SerializeRedirect
    \/ SerializeParam
    \/ SerializeTypeDef
    \/ SerializeCommand
    \/ SerializeEvent

SpecJson == InitJson /\ [][NextJson]_vars

\* the Markdown renderer on a document: dump_to with the markdown flag set
InitMarkdown ==
    \E v \in MdProtocolValues :
        /\ rule = "markdown"
        /\ input = v
        /\ chunks = <<>>
        /\ pc = "value"
        /\ res = NoResult
        /\ text = <<>>
        /\ res2 = NoResult
        /\ rest_len = 0
        /\ warn_on = FALSE
        /\ shown = -1

RenderMarkdown ==
    /\ rule = "markdown"
    /\ pc = "value"
    /\ text' = render(FILE_NAME, input)
    /\ pc' = "rendered"
    /\ UNCHANGED <<rule, chunks, input, res, res2, rest_len, warn_on, shown>>

NextMarkdown == RenderMarkdown

SpecMarkdown == InitMarkdown /\ [][NextMarkdown]_vars

\* the parser of one domain
InitDomain == InitRule("domain")
NextDomain == AddChunk \/ CallDomain
SpecDomain == InitDomain /\ [][NextDomain]_vars

----------------------------------------------------------------------------
(* main of src/examples/parser.rs, from the call of pdl::parse on.  The    *)
(* remainder is kept by its length in bytes; warn_on is whether the Warn   *)
(* level is enabled in the logger that pretty_env_logger::init() installs  *)
(* (RUST_LOG), which decides whether warn! evaluates its arguments.        *)

\* the bound of the slice in warn!("unexpected: {}", &rest[..1000])
PreviewLen == 1000

MaxRest == 1002

InitMain ==
    /\ rule = "main"
    /\ chunks = <<>>
    /\ input = <<>>
    /\ pc = "start"
    /\ res = NoResult
    /\ text = <<>>
    /\ res2 = NoResult
    /\ rest_len = 0
    /\ warn_on \in BOOLEAN
    /\ shown = -1

\* pdl::parse(&s).map_err(..)?: an error returns from main, a success
\* leaves a remainder
MainParse ==
    /\ rule = "main"
    /\ pc = "start"
    /\ \/ pc' = "failed" /\ rest_len' = rest_len
       \/ pc' = "parsed" /\ rest_len' \in 0..MaxRest
    /\ UNCHANGED <<rule, chunks, input, res, text, res2, warn_on, shown>>

\* if !rest.is_empty() { warn!("unexpected: {}", &rest[..1000]); }
\* the slice panics when the remainder is shorter than 1000 bytes, and when
\* byte 1000 of a longer remainder is inside a character
MainWarn ==
    /\ rule = "main"
    /\ pc = "parsed"
    /\ IF rest_len = 0 \/ ~warn_on
       THEN pc' = "dump" /\ shown' = shown
       ELSE \E is_char_boundary \in BOOLEAN :
               IF rest_len < PreviewLen
                  \/ (rest_len > PreviewLen /\ ~is_char_boundary)
               THEN pc' = "panicked" /\ shown' = shown
               ELSE pc' = "dump" /\ shown' = PreviewLen
    /\ UNCHANGED <<rule, chunks, input, res, text, res2, rest_len, warn_on>>

\* opt.dump(&protocol)
MainDump ==
    /\ rule = "main"
    /\ pc = "dump"
    /\ pc' = "done"
    /\ UNCHANGED <<rule, chunks, input, res, text, res2, rest_len, warn_on, shown>>

NextMain == MainParse \/ MainWarn \/ MainDump
SpecMain == InitMain /\ [][NextMain]_vars

----------------------------------------------------------------------------
(* C4: version accepts exactly the three-line sequence `version`,          *)
(* `<indent>major <digits>`, `<indent>minor <digits>` and returns the two  *)
(* numbers; the remainder is the text after the third line (empty when     *)
(* nothing follows); on a deviation in one of the three lines (a missing   *)
(* line, no digits, no indent, more text on the line, a number above       *)
(* usize::MAX) it fails, and no version is produced.                       *)

ExactVersionBlock ==
    /\ Len(chunks) >= 3
    /\ Written[1].kind = "version" /\ Written[1].good
    /\ Written[2].kind = "major" /\ Written[2].good
    /\ Written[3].kind = "minor" /\ Written[3].good

C4_VersionParsing ==
    (rule = "version" /\ pc = "parsed") =>
        /\ res.ok <=> ExactVersionBlock
        /\ res.ok =>
            /\ res.val = [major |-> Written[2].num, minor |-> Written[3].num]
            /\ Rest(input, res.pos) = TextFrom(4)
            /\ (Len(chunks) = 3 => Rest(input, res.pos) = <<>>)
        /\ ~res.ok => res.val = <<>>

\* the block "version", "\tmajor 007", " \t minor 18446744073709551615" was parsed
C4_Witness ==
    /\ rule = "version" /\ pc = "parsed" /\ res.ok
    /\ chunks = <<1, 4, 5>>
    /\ res.val = [major |-> <<"7">>, minor |-> USIZE_MAX]

----------------------------------------------------------------------------
(* The lines under an `enum <name>` head, read as the grammar of the       *)
(* specification reads them: a Variant is a single-token line with the     *)
(* comment lines directly before it; the run ends at the first line that   *)
(* is neither.                                                             *)

RECURSIVE VariantRun(_, _)
VariantRun(k, pending) ==
    IF k > Len(chunks) THEN <<>>
    ELSE IF Written[k].kind = "comment"
    THEN VariantRun(k + 1, Append(pending, Written[k].name))
    ELSE IF Written[k].kind = "token"
    THEN <<[description |-> pending, name |-> Written[k].name]>>
             \o VariantRun(k + 1, <<>>)
    ELSE <<>>

\* the buffer begins with h - 1 comment lines and an `enum <name>` head
EnumHeadAt(h) ==
    /\ h \in 1..Len(chunks)
    /\ Written[h].kind = "enum_param"
    /\ \A k \in 1..(h - 1) : Written[k].kind = "comment"

(* C2: when param parses a head line `<indent>enum <name>` followed by     *)
(* k >= 1 indented single-token lines, the Param has name = <name> and     *)
(* ty = Enum of exactly those k Variants in source order, each with the    *)
(* comment lines before it as its description; the variants are the lines  *)
(* after the head, and the Param keeps the comment lines before the head.  *)
C2_EnumAttachment ==
    (rule = "param" /\ pc = "parsed") =>
        \A h \in 1..Len(chunks) :
            (EnumHeadAt(h) /\ VariantRun(h + 1, <<>>) # <<>>) =>
                /\ res.ok
                /\ res.val.name = Written[h].name
                /\ res.val.ty = Enum(VariantRun(h + 1, <<>>))
                /\ res.val.description = [k \in 1..(h - 1) |-> Written[k].name]

\* `enum type`, a comment, the token a, the token b: two Variants, the first
\* with the comment as its description
C2_Witness ==
    /\ rule = "param" /\ pc = "parsed" /\ res.ok
    /\ chunks = <<2, 8, 5, 6>>
    /\ Len(res.val.ty.variants) = 2
    /\ res.val.ty.variants[1].description = <<Written[2].name>>
    /\ res.val.ty.variants[2].name = <<"b">>

----------------------------------------------------------------------------
\* the buffer is an identifier, or `array of ` and an identifier, and nothing
\* more or the text that ends the type
TyShape ==
    /\ rule = "ty" /\ pc = "parsed"
    /\ \/ Len(chunks) >= 1 /\ Written[1].kind = "ident"
          /\ \A k \in 2..Len(chunks) : Written[k].kind = "end"
       \/ Len(chunks) >= 2 /\ Written[1].kind = "array_of"
          /\ Written[2].kind = "ident"
          /\ \A k \in 3..Len(chunks) : Written[k].kind = "end"

(* C8: ty maps the identifier by the table enum->Enum([]),                 *)
(* integer->Integer, number->Number, boolean->Boolean, string->String,     *)
(* object->Object, any->Any, binary->Binary, every other identifier to     *)
(* Ref(identifier), and wraps the mapped Type in ArrayOf after the prefix  *)
(* `array of `.                                                            *)
C8_LexicalTable ==
    TyShape =>
        /\ res.ok
        /\ Written[1].kind = "ident" => res.val = Written[1].ty[1]
        /\ Written[1].kind = "array_of" => res.val = ArrayOf(Written[2].ty[1])

(* C9: the type text `array of array of T` parses, in the extends clause   *)
(* of a TypeDef and in a Param line, to ArrayOf(ArrayOf(T')) with T' the   *)
(* Type of T, and the text the renderer writes for a Type with ArrayOf     *)
(* nested twice parses back to that Type.                                  *)
C9_NestedArrays ==
    /\ (rule = "param" /\ pc = "parsed" /\ Len(chunks) = 1
            /\ Written[1].kind = "nested_array") =>
        /\ res.ok
        /\ res.val.ty = ArrayOf(ArrayOf(Scalar("String")))
    /\ (rule = "type_def" /\ pc = "parsed" /\ Len(chunks) = 1
            /\ Written[1].kind = "nested_array") =>
        /\ res.ok
        /\ res.val.extends = ArrayOf(ArrayOf(Scalar("String")))
    /\ (rule = "ty" /\ pc = "parsed" /\ Len(chunks) = 3
            /\ Written[1].kind = "array_of" /\ Written[2].kind = "array_of"
            /\ Written[3].kind = "ident" /\ Written[3].ty[1].k = "Ref") =>
        /\ res.ok
        /\ res.val = ArrayOf(ArrayOf(Written[3].ty[1]))
        /\ fmt_Type(res.val) = input


----------------------------------------------------------------------------
(* A domain block as written: the head, the `depends on` lines directly    *)
(* under it, then the child lines with the blank lines between them.       *)

ChildKinds == {"type", "command", "event"}

\* the first line from the k-th on that is no `depends on` line
RECURSIVE DepsEnd(_)
DepsEnd(k) ==
    IF k <= Len(chunks) /\ Written[k].kind = "dep" THEN DepsEnd(k + 1) ELSE k

\* the first line from the k-th on that is neither a child line nor blank
RECURSIVE ChildrenEnd(_)
ChildrenEnd(k) ==
    IF k <= Len(chunks) /\ Written[k].kind \in ChildKinds \cup {"blank"}
    THEN ChildrenEnd(k + 1)
    ELSE k

\* the lines from the a-th to the one before the b-th
Lines(a, b) == [k \in 1..(b - a) |-> Written[a + k - 1]]

\* the names on the lines of one kind among ls, in their order
NamesOf(ls, kind) ==
    LET sel == SelectSeq(ls, LAMBDA e : e.kind = kind)
    IN  [k \in 1..Len(sel) |-> sel[k].name]

\* the child lines of the block
ChildLines == Lines(DepsEnd(2), ChildrenEnd(DepsEnd(2)))

\* the position in the buffer where the k-th line begins
StartOf(k) == Len(input) - Len(TextFrom(k)) + 1

\* the k-th line is a child line out of the order TypeDef*, Command*, Event*:
\* a type after a command or an event, a command after an event
OutOfOrder(k) ==
    /\ k \in DepsEnd(2)..(ChildrenEnd(DepsEnd(2)) - 1)
    /\ \E j \in DepsEnd(2)..(k - 1) :
        \/ Written[k].kind = "type" /\ Written[j].kind \in {"command", "event"}
        \/ Written[k].kind = "command" /\ Written[j].kind = "event"

DomainParsed ==
    /\ rule = "domain" /\ pc = "parsed"
    /\ Len(chunks) >= 1 /\ Written[1].kind = "head"

(* C5: for each of the four combinations of the prefixes `experimental `   *)
(* and `deprecated ` before `domain <Name>` and a newline, domain returns  *)
(* a Domain whose two flags are true exactly for the prefixes present,     *)
(* with name = <Name>, and, when no line follows, with no dependencies,    *)
(* types, commands or events and with the empty remainder.                 *)
C5_DomainHead ==
    DomainParsed =>
        /\ res.ok
        /\ res.val.experimental = Written[1].experimental
        /\ res.val.deprecated = Written[1].deprecated
        /\ res.val.name = Written[1].name
        /\ res.val.description = <<>>
        /\ Len(chunks) = 1 =>
            /\ res.val.dependencies = <<>>
            /\ res.val.types = <<>>
            /\ res.val.commands = <<>>
            /\ res.val.events = <<>>
            /\ Rest(input, res.pos) = <<>>

\* `deprecated domain C` alone was parsed: deprecated without experimental
C5_Witness ==
    /\ DomainParsed /\ res.ok
    /\ chunks = <<3>>
    /\ res.val.deprecated /\ ~res.val.experimental
    /\ res.val.name = <<"C">>

(* C10 as stated: the children are gathered in the order TypeDef*,         *)
(* Command*, Event*; a type line after a command or an event, and a        *)
(* command line after an event, is not added to the Domain and is left     *)
(* unconsumed.                                                             *)
C10_FixedChildOrder ==
    DomainParsed =>
        \A k \in 1..Len(chunks) :
            OutOfOrder(k) =>
                /\ res.ok
                /\ res.pos <= StartOf(k)
                /\ Len(res.val.types) + Len(res.val.commands)
                       + Len(res.val.events) < Len(ChildLines)

(* C10 as amended: the children of a domain are accepted in any order;     *)
(* each TypeDef, Command and Event line of the block is added to the list  *)
(* of its kind, the three lists keep the source order of their lines, and  *)
(* the parser returns at the first line that is neither a child nor blank  *)
(* (the blank lines before that line are consumed only after a command).   *)
C10_ChildrenAnyOrder ==
    DomainParsed =>
        /\ res.ok
        /\ res.val.dependencies = NamesOf(Lines(2, DepsEnd(2)), "dep")
        /\ [k \in 1..Len(res.val.types) |-> res.val.types[k].id]
               = NamesOf(ChildLines, "type")
        /\ [k \in 1..Len(res.val.commands) |-> res.val.commands[k].name]
               = NamesOf(ChildLines, "command")
        /\ [k \in 1..Len(res.val.events) |-> res.val.events[k].name]
               = NamesOf(ChildLines, "event")
        /\ res.pos <= StartOf(ChildrenEnd(DepsEnd(2)))
        /\ \A k \in DepsEnd(2)..(ChildrenEnd(DepsEnd(2)) - 1) :
               Written[k].kind \in ChildKinds => StartOf(k + 1) <= res.pos

\* `domain A`, a command, a type, the other command: the type is in the
\* Domain and the commands are in source order
C10_Witness ==
    /\ DomainParsed /\ res.ok
    /\ chunks = <<1, 8, 6, 7>>
    /\ Len(res.val.types) = 1
    /\ res.val.commands[1].name = <<"g">>
    /\ res.val.commands[2].name = <<"f">>
    /\ Rest(input, res.pos) = <<>>

----------------------------------------------------------------------------
\* the smaller of two numbers
Min(a, b) == IF a <= b THEN a ELSE b

(* C7: whenever parse succeeds with a non-empty remainder (and warnings    *)
(* are enabled), main emits a warning that shows the first 1000            *)
(* characters of the remainder, or all of it when it is shorter, and goes  *)
(* on to render the output; it aborts for no non-empty remainder, be it    *)
(* shorter than, equal to or longer than 1000.                             *)
C7_RemainderPreview ==
    (rule = "main" /\ rest_len > 0 /\ warn_on) =>
        /\ pc # "panicked"
        /\ pc \in {"dump", "done"} => shown = Min(rest_len, PreviewLen)

----------------------------------------------------------------------------
(* Whole documents.                                                        *)

\* C1: every Document parse returns, rendered as canonical text and parsed
\* again, gives a successful parse whose Document equals the first one (the
\* remainder is not compared).
C1_RoundTrip == pc = "reparsed" => res2.ok /\ res2.val = res.val

\* the text is a document with no line that is not of a declaration
WellFormed == chunks # <<>> /\ ~HasGarbage

\* the pieces before the first line of no declaration
ValidEnd ==
    IF HasGarbage
    THEN (CHOOSE k \in 1..Len(chunks) :
              /\ Written[k].kind = "garbage"
              /\ \A j \in 1..(k - 1) : Written[j].kind # "garbage") - 1
    ELSE Len(chunks)

\* the pieces that open a domain, and the last piece of the domain opened at h
Heads == {k \in 1..ValidEnd : Written[k].kind \in {"prologue", "head"}}

DomainEnd(h) ==
    IF \E k \in Heads : k > h
    THEN (CHOOSE k \in Heads : k > h /\ \A j \in Heads : j > h => k <= j) - 1
    ELSE ValidEnd

\* the members of a set of positions, in increasing order
Sorted(S) ==
    [n \in 1..Cardinality(S) |->
        CHOOSE k \in S : Cardinality({j \in S : j < k}) = n - 1]

\* the item written under the type of piece k
ItemAfter(k) ==
    IF k < ValidEnd /\ Written[k + 1].kind = "item_enum" THEN "Enum"
    ELSE IF k < ValidEnd /\ Written[k + 1].kind = "item_props" THEN "Properties"
    ELSE "None"

\* what the text declares in the domain opened at h, in the order of the text
Declared(h) ==
    LET ls == Lines(h + 1, DomainEnd(h) + 1)
        ts == Sorted({k \in (h + 1)..DomainEnd(h) : Written[k].kind = "type"})
    IN  [name |-> Written[h].name,
         dependencies |-> Written[h].members \o NamesOf(ls, "dep"),
         types |-> [n \in 1..Len(ts) |->
                       [id |-> Written[ts[n]].name, item |-> ItemAfter(ts[n])]],
         commands |-> NamesOf(ls, "command"),
         events |-> NamesOf(ls, "event")]

\* the same outline of a Domain of the Document
Outline(d) ==
    [name |-> d.name,
     dependencies |-> d.dependencies,
     types |-> [n \in 1..Len(d.types) |->
                   [id |-> d.types[n].id,
                    item |-> IF d.types[n].item = <<>> THEN "None"
                             ELSE d.types[n].item[1].k]],
     commands |-> [n \in 1..Len(d.commands) |-> d.commands[n].name],
     events |-> [n \in 1..Len(d.events) |-> d.events[n].name]]

(* C3: on a well-formed document parse returns a Document whose            *)
(* description is the leading comment lines in source order, each trimmed, *)
(* whose version is the (major, minor) written, whose domains are in       *)
(* source order, and in each Domain the dependencies, the types, the       *)
(* commands and the events are in their source order, a TypeDef written    *)
(* without an enum or properties block having no item; the remainder is    *)
(* empty.                                                                  *)
C3_OrderPreservation ==
    (pc = "parsed" /\ WellFormed) =>
        /\ res.ok
        /\ res.val.description = Written[1].description
        /\ res.val.version = [major |-> Written[1].version[1],
                              minor |-> Written[1].version[2]]
        /\ [n \in 1..Len(res.val.domains) |-> Outline(res.val.domains[n])]
               = [n \in 1..Cardinality(Heads) |-> Declared(Sorted(Heads)[n])]
        /\ Rest(input, res.pos) = <<>>

\* a document of two domains was parsed: the first with two dependencies, a
\* described leading comment and a type without a block
C3_Witness ==
    /\ pc = "parsed"
    /\ WellFormed
    /\ res.ok
    /\ Len(res.val.description) = 2
    /\ Len(res.val.domains) = 2
    /\ Len(res.val.domains[1].dependencies) = 2
    /\ Len(res.val.domains[1].types) = 1
    /\ res.val.domains[1].types[1].item = <<>>
    /\ Len(res.val.domains[2].commands) = 1

\* the position of the line of no declaration, and the text before it
GarbageAt == ValidEnd + 1

ValidPart == SubSeq(input, 1, StartOf(GarbageAt) - 1)

(* C6: when a valid description, version and one or more domains are       *)
(* followed by a line no domain-level parser accepts, parse succeeds, the  *)
(* Document is the one of the text before that line, and the remainder     *)
(* holds that line and all that follows it.                                *)
C6_TruncationTolerance ==
    (pc = "parsed" /\ HasGarbage) =>
        /\ res.ok
        /\ res.pos <= StartOf(GarbageAt)
        /\ parse(ValidPart).ok
        /\ res.val = parse(ValidPart).val
        /\ [n \in 1..Len(res.val.domains) |-> Outline(res.val.domains[n])]
               = [n \in 1..Cardinality(Heads) |-> Declared(Sorted(Heads)[n])]

\* a document with a line of no declaration and a declaration after it was
\* parsed, and the remainder begins at that line
C6_Witness ==
    /\ pc = "parsed"
    /\ HasGarbage
    /\ GarbageAt < Len(chunks)
    /\ GarbageAt > 2
    /\ res.ok
    /\ Rest(input, res.pos) = TextFrom(GarbageAt)

----------------------------------------------------------------------------
(* Head lines and their modifiers.                                         *)

\* the modifiers written are in the order experimental, deprecated,
\* optional, none written twice
InOrder == \A j, k \in 1..Len(chunks) : j < k => chunks[j] < chunks[k]

\* the modifier c is among those written
HasModifier(c) == \E k \in 1..Len(chunks) : chunks[k] = c

Reordered ==
    /\ Len(chunks) >= 2
    /\ \A j, k \in 1..Len(chunks) : j # k => chunks[j] # chunks[k]
    /\ ~InOrder

(* C13: a head line with two or more of the modifiers in another order     *)
(* than experimental, deprecated, optional, and the full rest of the head, *)
(* is rejected by the parser of the declaration.                           *)
C13_FixedModifierOrder == (rule \in HeadRules /\ pc = "parsed" /\ Reordered) => ~res.ok

\* domain was run on `deprecated experimental domain X` and failed
C13_Witness ==
    /\ rule = "head_domain"
    /\ pc = "parsed"
    /\ chunks = <<2, 1>>
    /\ ~res.ok

----------------------------------------------------------------------------
(* Commands.                                                               *)

\* the buffer is a command head, then the lines of the kinds picked among
\* redirect, parameters and returns, in that order
CommandOf(r, p, q) ==
    chunks = <<1>> \o (IF r THEN <<2>> ELSE <<>>) \o (IF p THEN <<3>> ELSE <<>>)
                   \o (IF q THEN <<4>> ELSE <<>>)

\* the names of a list of Params
ParamNames(ps) == [k \in 1..Len(ps) |-> ps[k].name]

(* C12: command succeeds on a head line alone, with no redirect and empty  *)
(* parameters and returns; on a head followed by a redirect line and then  *)
(* a parameters block, a returns block or both, it returns a Command with  *)
(* the Redirect and those parameters and returns.  (Every choice of the    *)
(* three parts is accepted, each part returned exactly when written.)      *)
C12_CommandBody ==
    \A r, p, q \in BOOLEAN :
        (rule = "command" /\ pc = "parsed" /\ CommandOf(r, p, q)) =>
            /\ res.ok
            /\ res.pos = Len(input) + 1
            /\ res.val.name = <<"f">>
            /\ res.val.redirect =
                   IF r THEN <<[description |-> <<>>, to |-> OVERLAY]>> ELSE <<>>
            /\ ParamNames(res.val.parameters) = IF p THEN <<<<"x">>>> ELSE <<>>
            /\ ParamNames(res.val.returns) = IF q THEN <<<<"n">>>> ELSE <<>>

\* command was run on a head with a redirect, a parameters block and a
\* returns block, and returned all three
C12_Witness ==
    /\ rule = "command"
    /\ pc = "parsed"
    /\ CommandOf(TRUE, TRUE, TRUE)
    /\ res.ok
    /\ res.val.redirect # <<>>
    /\ res.val.parameters # <<>>
    /\ res.val.returns # <<>>

----------------------------------------------------------------------------
(* Descriptions.                                                           *)

\* a blank line is among the lines written before the head
HasBlank == \E k \in 1..Len(chunks) : Written[k].kind = "blank"

\* the texts of the lines written, which are comments when none is blank
CommentTexts == [k \in 1..Len(chunks) |-> Written[k].name]

(* C14: the description of a Domain, TypeDef, Command, Event, Param,       *)
(* Variant or Redirect is the comment lines directly above its head line,  *)
(* in order; comment lines with a blank line between them and the head     *)
(* are never attached: the parser of the declaration fails on them.        *)
C14_DescriptionContiguity ==
    (rule \in DescribedRules /\ pc = "parsed") =>
        /\ ~HasBlank => res.ok /\ res.val.description = CommentTexts
        /\ HasBlank => ~res.ok

\* a comment block, a blank line and a comment line above a type head: the
\* TypeDef parser failed
C14_Witness ==
    /\ rule = "described_type_def"
    /\ pc = "parsed"
    /\ chunks = <<1, 2, 3, 2>>
    /\ ~res.ok

----------------------------------------------------------------------------
(* The JSON renderer.                                                      *)

\* the keys of a JSON object and the value under a key
Keys(j) == {j.items[k].key : k \in 1..Len(j.items)}

Get(j, key) == j.items[CHOOSE k \in 1..Len(j.items) : j.items[k].key = key].value

\* the word of a scalar kind
KindWord(k) ==
    CASE k = "Integer" -> <<"i", "n", "t", "e", "g", "e", "r">>
      [] k = "Number" -> <<"n", "u", "m", "b", "e", "r">>
      [] k = "Boolean" -> <<"b", "o", "o", "l", "e", "a", "n">>
      [] k = "String" -> <<"s", "t", "r", "i", "n", "g">>
      [] k = "Object" -> <<"o", "b", "j", "e", "c", "t">>
      [] k = "Any" -> <<"a", "n", "y">>

\* j is the fragment of the type ty0
RECURSIVE IsFragment(_, _)
IsFragment(ty0, j) ==
    /\ j.j = "object"
    /\ Len(j.items) = Cardinality(Keys(j))
    /\ CASE ty0.k = "Enum" ->
                /\ Keys(j) = {"type", "enum"}
                /\ Get(j, "type") = JStr(<<"s", "t", "r", "i", "n", "g">>)
                /\ Get(j, "enum").j = "array"
                /\ Len(Get(j, "enum").items) = Len(ty0.variants)
                /\ \A k \in 1..Len(ty0.variants) :
                       Get(j, "enum").items[k] = JStr(ty0.variants[k].name)
         [] ty0.k = "ArrayOf" ->
                /\ Keys(j) = {"type", "items"}
                /\ Get(j, "type") = JStr(<<"a", "r", "r", "a", "y">>)
                /\ IsFragment(ty0.of[1], Get(j, "items"))
         [] ty0.k = "Ref" ->
                /\ Keys(j) = {"$ref"}
                /\ Get(j, "$ref") = JStr(ty0.name)
         [] OTHER ->
                /\ Keys(j) = {"type"}
                /\ Get(j, "type") = JStr(KindWord(ty0.k))

(* C15: the JSON renderer writes for a scalar Type {"type": "<kind>"}, for *)
(* an Enum {"type": "string", "enum": [the variant names in order]}, for   *)
(* ArrayOf(t) {"type": "array", "items": the fragment of t}, recursively,  *)
(* and for Ref(name) {"$ref": "<name>"}.                                   *)
C15_TypeFragments == (rule = "Ty" /\ pc = "serialized") => IsFragment(input, res)

\* an array of arrays of an enum with two variants was rendered
C15_Witness ==
    /\ rule = "Ty"
    /\ pc = "serialized"
    /\ input.k = "ArrayOf"
    /\ input.of[1].k = "ArrayOf"
    /\ input.of[1].of[1].k = "Enum"
    /\ Len(input.of[1].of[1].variants) = 2

\* the number a text of decimal digits writes
RECURSIVE DecimalValue(_)
DecimalValue(d) ==
    IF d = <<>> THEN 0
    ELSE 10 * DecimalValue(SubSeq(d, 1, Len(d) - 1)) + digit_value(d[Len(d)])

(* C16: a version number is written as a JSON string holding its decimal   *)
(* digits, never as a JSON number.                                         *)
C16_VersionStrings ==
    (rule = "usize" /\ pc = "serialized") =>
        /\ res.j = "string"
        /\ res.s # <<>>
        /\ \A k \in 1..Len(res.s) : is_ascii_digit(res.s[k])
        /\ Len(res.s) > 1 => res.s[1] # "0"
        /\ DecimalValue(res.s) = input

\* the number 107 was rendered as the string "107"
C16_Witness ==
    /\ rule = "usize"
    /\ pc = "serialized"
    /\ input = 107
    /\ res = JStr(<<"1", "0", "7">>)

\* where the k-th line of the description begins in the joined text, less one
RECURSIVE Offset(_)
Offset(k) == IF k = 1 THEN 0 ELSE Offset(k - 1) + Len(input[k - 1]) + 1

(* C18: a non-empty description is written as one JSON string: its lines   *)
(* in order, with exactly one space between consecutive lines.             *)
C18_DescriptionJoined ==
    (rule = "description" /\ pc = "serialized" /\ input # <<>>) =>
        /\ res.j = "string"
        /\ Len(res.s) = Offset(Len(input) + 1) - 1
        /\ \A k \in 1..Len(input) :
               SubSeq(res.s, Offset(k) + 1, Offset(k) + Len(input[k])) = input[k]
        /\ \A k \in 1..(Len(input) - 1) : res.s[Offset(k + 1)] = " "

\* a description of three lines was rendered
C18_Witness ==
    /\ rule = "description"
    /\ pc = "serialized"
    /\ input = <<<<"a">>, <<"b", " ", "c">>, <<"a">>>>
    /\ res.s = <<"a", " ", "b", " ", "c", " ", "a">>

(* C19: a redirect is written as a bare JSON string, the name of the       *)
(* target domain; the description of the redirect is nowhere in it.        *)
C19_RedirectString ==
    (rule = "redirect" /\ pc = "serialized" /\ input # <<>>) =>
        /\ res.j = "string"
        /\ res.s = input[1].to
        /\ res.items = <<>>

\* a redirect with a description was rendered
C19_Witness ==
    /\ rule = "redirect"
    /\ pc = "serialized"
    /\ input # <<>>
    /\ input[1].description # <<>>
    /\ res = JStr(OVERLAY)

\* the declarations of the sparse encoding, and the flag f of the value
SparseRules == {"Param", "TypeDef", "Command", "Event"}

Flag(f) ==
    CASE f = "experimental" -> input.experimental
      [] f = "deprecated" -> input.deprecated
      [] f = "optional" -> rule = "Param" /\ input.optional

(* C17: the JSON object of a Param, Command, Event or TypeDef has a flag   *)
(* key (experimental, deprecated, optional) only when the flag is true and *)
(* the key description only when the description is not empty: with all    *)
(* flags false and no description it has none of the four keys.            *)
C17_SparseJson ==
    (rule \in SparseRules /\ pc = "serialized") =>
        /\ res.j = "object"
        /\ \A f \in {"experimental", "deprecated", "optional"} :
               f \in Keys(res) <=> Flag(f)
        /\ "description" \in Keys(res) <=> input.description # <<>>

\* a Param with no flag and no description was rendered with none of the keys
C17_Witness ==
    /\ rule = "Param"
    /\ pc = "serialized"
    /\ ~input.experimental /\ ~input.deprecated /\ ~input.optional
    /\ input.description = <<>>
    /\ Keys(res) \cap {"experimental", "deprecated", "optional", "description"} = {}

----------------------------------------------------------------------------
(* C20: the Markdown text holds one ALLOWED VALUES table, with a row for   *)
(* the name and description of each variant in order, for every TypeDef    *)
(* whose item is an enum and for every Param whose type is an inline Enum. *)

\* the variant lists of the Enum-typed members of a list of Params
ParamEnums(ps) ==
    Cat([k \in 1..Len(ps) |->
            IF ps[k].ty.k = "Enum" THEN <<ps[k].ty.variants>> ELSE <<>>])

\* the variant lists of the enum TypeDefs of a domain
TypeDefEnums(d) ==
    Cat([k \in 1..Len(d.types) |->
            IF d.types[k].item # <<>> /\ d.types[k].item[1].k = "Enum"
            THEN <<d.types[k].item[1].variants>> ELSE <<>>])

\* the variant lists of the Enum-typed Params of a domain
DomainParamEnums(d) ==
    Cat([k \in 1..Len(d.commands) |->
            ParamEnums(d.commands[k].parameters)
            \o ParamEnums(d.commands[k].returns)])
    \o Cat([k \in 1..Len(d.types) |->
            IF d.types[k].item # <<>> /\ d.types[k].item[1].k = "Properties"
            THEN ParamEnums(d.types[k].item[1].properties) ELSE <<>>])
    \o Cat([k \in 1..Len(d.events) |-> ParamEnums(d.events[k].parameters)])

TypeDefEnumsOf(proto) ==
    Cat([k \in 1..Len(proto.domains) |-> TypeDefEnums(proto.domains[k])])

ParamEnumsOf(proto) ==
    Cat([k \in 1..Len(proto.domains) |-> DomainParamEnums(proto.domains[k])])

\* the table the claim describes for a list of variants
ValuesTable(vs) ==
    MD_ALLOWED_VALUES \o MD_VALUES_HEAD
    \o Cat([k \in 1..Len(vs) |->
            <<"|", " ", GRAVE>> \o vs[k].name \o <<GRAVE, " ", "|", " ">>
            \o md_description(vs[k].description) \o <<" ", "|", "\n">>])

\* the number of places of t where w stands
Occurrences(t, w) ==
    Cardinality({i \in 1..(Len(t) - Len(w) + 1) :
                    SubSeq(t, i, i + Len(w) - 1) = w})

\* the number of members of the list l equal to v
Count(l, v) == Cardinality({k \in 1..Len(l) : l[k] = v})

\* C20: every enum TypeDef and every Enum-typed Param of the document has
\* its own ALLOWED VALUES table, with its variants in order, in the text
C20_AllowedValues ==
    (rule = "markdown" /\ pc = "rendered") =>
        LET bearers == TypeDefEnumsOf(input) \o ParamEnumsOf(input)
        IN  \A k \in 1..Len(bearers) :
                Occurrences(text, ValuesTable(bearers[k]))
                    >= Count(bearers, bearers[k])

\* the part of C20 about TypeDefs: each enum TypeDef has its table
C20_TypeDefTables ==
    (rule = "markdown" /\ pc = "rendered") =>
        LET bearers == TypeDefEnumsOf(input)
        IN  /\ Occurrences(text, MD_ALLOWED_VALUES) = Len(bearers)
            /\ \A k \in 1..Len(bearers) :
                   Occurrences(text, ValuesTable(bearers[k]))
                       = Count(bearers, bearers[k])

\* a rendered document with an enum TypeDef and an Enum-typed Param
C20_Witness ==
    /\ rule = "markdown"
    /\ pc = "rendered"
    /\ TypeDefEnumsOf(input) # <<>>
    /\ ParamEnumsOf(input) # <<>>

----------------------------------------------------------------------------
(* C25: param fails, and returns no Param, on a head line                  *)
(* `<indent>enum <name>` that is not directly followed by a Variant (a     *)
(* single-token line, with the comment lines before it); a Param that      *)
(* param returns with ty Enum has at least one variant.                    *)
C25_EnumNeedsVariant ==
    (rule = "param" /\ pc = "parsed") =>
        /\ \A h \in 1..Len(chunks) :
               (EnumHeadAt(h) /\ VariantRun(h + 1, <<>>) = <<>>) =>
                   (~res.ok /\ res.val = <<>>)
        /\ (res.ok /\ res.val.ty.k = "Enum") => res.val.ty.variants # <<>>

\* `enum type`, a blank line, the token a: param has failed; and `enum type`
\* alone
C25_Witness ==
    /\ rule = "param" /\ pc = "parsed" /\ ~res.ok
    /\ chunks \in {<<2, 9, 5>>, <<2>>, <<2, 1>>}

----------------------------------------------------------------------------
(* C29: on a Param line with its modifiers in the order of the grammar,    *)
(* the param parser of lib.rs returns a Param whose optional flag is true  *)
(* exactly when the modifier optional is written and whose deprecated flag *)
(* is true exactly when the modifier deprecated is written.                *)
C29_FlagMapping ==
    (rule \in LibRules /\ pc = "parsed" /\ InOrder) =>
        /\ res.ok
        /\ res.val.optional = HasModifier(3)
        /\ res.val.deprecated = HasModifier(2)

\* apart from the two flags taking each other's value, the Param is the one
\* written
C29_FlagsSwapped ==
    (rule \in LibRules /\ pc = "parsed" /\ InOrder) =>
        /\ res.ok
        /\ res.val.experimental = HasModifier(1)
        /\ res.val.optional = HasModifier(2)
        /\ res.val.deprecated = HasModifier(3)
        /\ res.val.name = (IF rule = "lib_param" THEN <<"x">> ELSE <<"e">>)

----------------------------------------------------------------------------
\* the text after the keyword is one run of non-whitespace characters
OneToken == input # <<>> /\ \A k \in 1..Len(input) : ~is_whitespace(input[k])

\* the text after the keyword is a token, whitespace and further text
FurtherText ==
    /\ input # <<>>
    /\ ~is_whitespace(input[1])
    /\ \E j, k \in 1..Len(input) :
           j < k /\ is_whitespace(input[j]) /\ ~is_whitespace(input[k])

(* C26: the head line of a Domain, Command or Event with one bare name     *)
(* token after the keyword is accepted with that name, and a head line     *)
(* with further text after the name token (`domain A B`) is not accepted.  *)
C26_BareNameToken ==
    (rule \in NameRules /\ pc = "parsed") =>
        /\ OneToken => (res.ok /\ res.val.name = input)
        /\ FurtherText => ~res.ok

\* what the parsers do: the name is the whole text up to the end of the line
C26_NameIsRestOfLine ==
    (rule \in NameRules /\ pc = "parsed") =>
        (res.ok /\ res.val.name = input /\ res.pos = Len(NamedLine) + 1)

----------------------------------------------------------------------------
\* the first line from the k-th on that is neither a `depends on` line nor
\* blank: the first child declaration, or the end of the block
RECURSIVE DepsOrBlankEnd(_)
DepsOrBlankEnd(k) ==
    IF k <= Len(chunks) /\ Written[k].kind \in {"dep", "blank"}
    THEN DepsOrBlankEnd(k + 1)
    ELSE k

(* C28: every `depends on <name>` line of a domain before its first child  *)
(* declaration is in Domain.dependencies, in source order and with its     *)
(* duplicates, also when blank lines stand between it and the head line or *)
(* another `depends on` line.                                              *)
C28_DependsOnPosition ==
    DomainParsed =>
        /\ res.ok
        /\ res.val.dependencies = NamesOf(Lines(2, DepsOrBlankEnd(2)), "dep")

\* what domain does: the dependencies are the `depends on` lines directly
\* under the head line, and a blank line ends them
C28_DependsOnUnderHead ==
    DomainParsed =>
        /\ res.ok
        /\ res.val.dependencies = NamesOf(Lines(2, DepsEnd(2)), "dep")
        /\ (DepsEnd(2) < DepsOrBlankEnd(2)
            /\ DepsOrBlankEnd(2) <= Len(chunks) + 1
            /\ \E k \in DepsEnd(2)..(DepsOrBlankEnd(2) - 1) : Written[k].kind = "dep")
           => Rest(input, res.pos) = TextFrom(DepsEnd(2))

----------------------------------------------------------------------------
\* the place of the returns header among the lines written, 0 when there is
\* none
ReturnsAt ==
    IF \E k \in 1..Len(chunks) : Written[k].kind = "returns"
    THEN CHOOSE k \in 1..Len(chunks) : Written[k].kind = "returns"
    ELSE 0

\* a head line, a parameters block and a returns block, each with a Param
BothBlocks ==
    /\ rule = "blocks" /\ pc = "parsed"
    /\ ReturnsAt > 3
    /\ ReturnsAt < Len(chunks)

\* the names of the Params written on the lines from the a-th to the b-th
WrittenParams(a, b) == [k \in 1..(b - a + 1) |-> Written[a + k - 1].name]

\* a Param of the list has a Variant with the name of the returns header
ReturnsAsVariant(ps) ==
    \E k \in 1..Len(ps) :
        /\ ps[k].ty.k = "Enum"
        /\ \E n \in 1..Len(ps[k].ty.variants) :
               ps[k].ty.variants[n].name = K.returns

(* C23: on a head line, a parameters block and a returns block with no     *)
(* blank line between them, command returns the Params written under       *)
(* `parameters` in Command.parameters and the Params written under         *)
(* `returns` in Command.returns, and the `returns` header is no Variant,   *)
(* also when the last Param of the parameters block has an inline enum.    *)
C23_BlocksSeparate ==
    BothBlocks =>
        /\ res.ok
        /\ ParamNames(res.val.parameters) = WrittenParams(3, ReturnsAt - 1)
        /\ ParamNames(res.val.returns) = WrittenParams(ReturnsAt + 1, Len(chunks))
        /\ ~ReturnsAsVariant(res.val.parameters)

\* what command does: the blocks stay separate unless the last Param of the
\* parameters block has an inline enum; then `returns` is one more Variant
\* of it and the Params under it are added to Command.parameters
C23_SeparateUnlessEnumLast ==
    BothBlocks =>
        /\ res.ok
        /\ res.pos = Len(input) + 1
        /\ IF Written[ReturnsAt - 1].kind = "enum_param"
           THEN /\ ParamNames(res.val.parameters) =
                       WrittenParams(3, ReturnsAt - 1)
                       \o WrittenParams(ReturnsAt + 1, Len(chunks))
                /\ res.val.returns = <<>>
                /\ ReturnsAsVariant(res.val.parameters)
           ELSE /\ ParamNames(res.val.parameters) = WrittenParams(3, ReturnsAt - 1)
                /\ ParamNames(res.val.returns) =
                       WrittenParams(ReturnsAt + 1, Len(chunks))
                /\ ~ReturnsAsVariant(res.val.parameters)

----------------------------------------------------------------------------
\* the first piece from the k-th on that is no blank line
RECURSIVE BlankEnd(_)
BlankEnd(k) ==
    IF k <= Len(chunks) /\ Written[k].kind = "blank" THEN BlankEnd(k + 1) ELSE k

\* a domain head is the first thing written after the version block and the
\* blank lines under it
FirstDomainMatches ==
    BlankEnd(2) <= Len(chunks) /\ Written[BlankEnd(2)].kind = "head"

\* the first head line that does not match, or the end of the text
RECURSIVE BadAt(_)
BadAt(k) ==
    IF k <= Len(chunks) /\ Written[k].kind # "bad" THEN BadAt(k + 1) ELSE k

(* C27: parse fails, with no Document, on a description and version block  *)
(* after which no Domain parses (nothing, only blank lines, or a first     *)
(* domain head that does not match); with a Domain after the version block *)
(* it succeeds, the runs of blank lines before the first domain and        *)
(* between the domains skipped.                                            *)
C27_DomainRequired ==
    (rule = "domains" /\ pc = "parsed" /\ chunks # <<>>) =>
        /\ res.ok <=> FirstDomainMatches
        /\ ~res.ok => res.val = <<>>
        /\ res.ok =>
            /\ [n \in 1..Len(res.val.domains) |-> res.val.domains[n].name]
                   = NamesOf(Lines(2, BadAt(2)), "head")
            /\ res.pos <= StartOf(BadAt(2))

\* parse has failed on the version block and two blank lines
C27_Witness ==
    /\ rule = "domains" /\ pc = "parsed"
    /\ chunks = <<1, 2, 2>>
    /\ ~res.ok

----------------------------------------------------------------------------
\* the outcome of a parser: Ok, nom::Err::Error or nom::Err::Incomplete
Outcome(r) ==
    IF r.ok THEN "Ok" ELSE IF is_error(r) THEN "Error" ELSE "Incomplete"

(* C21: on every buffer parse returns either success with a Document and a *)
(* remainder of the buffer, or a failure that carries no Document; the     *)
(* outcome is never Incomplete, also when the buffer ends in the middle of *)
(* a line.                                                                 *)
C21_FailureClasses ==
    (rule = "truncated" /\ pc = "parsed") =>
        /\ Outcome(res) \in {"Ok", "Error"}
        /\ res.ok =>
            /\ DOMAIN res.val = {"description", "version", "domains"}
            /\ res.val.domains # <<>>
            /\ res.pos \in 1..(Len(input) + 1)
        /\ ~res.ok => res = Err(res.pos)

\* parse has failed on a buffer that ends within the head line of the first
\* domain, after the version block
C21_Witness ==
    /\ rule = "truncated" /\ pc = "parsed"
    /\ ~res.ok
    /\ Len(input) > Len(K.domain)
    /\ SubSeq(input, Len(input) - Len(K.domain) + 1, Len(input)) = K.domain
    /\ version(input, empty_lines(input, description(input, 1).pos).pos).ok

----------------------------------------------------------------------------
\* the length of the indent the line at p had, and of the one it was given
OldIndent == span_blank(input, chunks[1]) - chunks[1]
NewIndent == span_blank(text, chunks[1]) - chunks[1]

(* C22: when parse accepts a text, it accepts the text with the leading    *)
(* whitespace run of one indented declaration line replaced by any other   *)
(* non-empty run of spaces and tabs, with an equal Document; the remainder *)
(* is the same lines: it begins at the same line, the cursor moved by the  *)
(* change of length when the line is before it.                            *)
C22_IndentNotMeasured ==
    (rule = "indent" /\ pc = "reparsed" /\ res.ok) =>
        /\ res2.ok
        /\ res2.val = res.val
        /\ res2.pos = IF res.pos <= chunks[1] THEN res.pos
                      ELSE res.pos + NewIndent - OldIndent
        /\ Rest(text, res2.pos) =
               IF res.pos <= chunks[1]
               THEN Reindented(Rest(input, res.pos), chunks[1] - res.pos + 1,
                               SubSeq(text, chunks[1], chunks[1] + NewIndent - 1))
               ELSE Rest(input, res.pos)

\* the indent of a Variant line, eight spaces, was replaced by one tab and
\* the Document is the same
C22_Witness ==
    /\ rule = "indent" /\ pc = "reparsed"
    /\ res.ok /\ res2.ok /\ res2.val = res.val
    /\ OldIndent = 4 * Len(IND)
    /\ SubSeq(text, chunks[1], chunks[1] + NewIndent - 1) = TAB
    /\ res.pos > chunks[1]

----------------------------------------------------------------------------
\* the index of the piece that fails, and the place in input where it begins
FailedPiece == CHOOSE k \in 1..Len(chunks) : Written[k].kind \in FailingKinds
FailedAt == Len(input) - Len(TextFrom(FailedPiece)) + 1

\* the place where the attempt that fails begins: at the piece that fails;
\* when the piece follows the head line of a command, the blank lines it
\* begins with were read by the empty_lines of command before the attempt
AttemptStart ==
    IF Written[FailedPiece - 1].kind = "command"
    THEN empty_lines(input, FailedAt).pos
    ELSE FailedAt

(* C24: when a child declaration, a Param, a Variant, a redirect, a        *)
(* parameters or returns block, or a later domain fails part-way through,  *)
(* parse still succeeds, the Document is that of the text before the       *)
(* failed piece, and the cursor is where the failed attempt began: the     *)
(* comment lines, blank lines and block header that attempt read are       *)
(* unread.                                                                 *)
C24_NoPartialConsumption ==
    (rule = "partial" /\ pc = "parsed" /\ HasFailing) =>
        /\ res.ok
        /\ res.pos = AttemptStart
        /\ res.val = parse(SubSeq(input, 1, FailedAt - 1)).val

\* a returns block whose header matched and whose only Param did not; the
\* header is unread
C24_Witness ==
    /\ rule = "partial" /\ pc = "parsed" /\ HasFailing
    /\ Written[FailedPiece].kind = "bad_returns"
    /\ res.ok
    /\ SubSeq(input, res.pos, res.pos + 2 * Len(IND) + Len(K.returns) - 1)
           = IND \o IND \o K.returns

----------------------------------------------------------------------------
\* every iteration made ended after the place where it began
LoopProgress == (rule \in LoopRules /\ shown > 0) => res.pos > shown

(* C30: every iteration of every repetition of the grammar (blank lines,   *)
(* comment lines, depends-on lines, domain children, params, variants,     *)
(* domains) reads at least one character, and every repetition, begun at   *)
(* any place of the input, comes to its end.                               *)
C30_Termination == [](LoopProgress) /\ <>(pc = "done")

\* a run of Variants ended after more than one iteration
C30_Witness ==
    /\ rule = "loop_variants" /\ pc = "done"
    /\ shown > chunks[1]
    /\ res.pos > shown

====
